---- MODULE Spec2Model ----
(***************************************************************************)
(* Car-pool assignment bot: the Google-Sheets record store (sheets.py),    *)
(* the conversation handlers and the weekly confirm-or-clear protocol      *)
(* (handlers.py), and the pending-confirmation state (persistence.py).     *)
(*                                                                         *)
(* The three worksheets are sequences of data rows (sheet row i+1 is       *)
(* element i); the header row of each sheet is the variable headers, which *)
(* the bot never writes.  Cells are strings, as get_all_values() returns   *)
(* them.  Every handler is one action: between its awaits (message sends   *)
(* only) the store calls are synchronous.                                  *)
(*                                                                         *)
(* The specifications SpecRace, SpecConfirm and SpecReaders look at        *)
(* handlers and cache reads that overlap: there a handler is a task        *)
(* (procs) that is suspended at a backend call while other tasks run, and  *)
(* a cache read is its three sections (check under the lock, backend read  *)
(* outside it, fill under the lock).  SpecLive adds weak fairness of the   *)
(* job queue and the clock.                                                *)
(***************************************************************************)
EXTENDS Integers, Sequences, FiniteSets, Bags, TLC

VARIABLES
    tab,        \* backend worksheets: table name -> sequence of data rows
    cache,      \* SheetManager._data_cache: table name -> NoCache or [data, ts]
    now,        \* wall clock, seconds
    pending,    \* StateManager._state["pending_confirmations"]: tg -> NoPending or entry
    timers,     \* job queue: bag of armed weekly_timeout jobs [tg, due]
    del_data,   \* context.user_data["passengers"] of a user in state DEL_INPUT, or NoData
    shown,      \* the passenger list of the latest weekly prompt sent to each driver
    last_weekly_check,  \* StateManager._state["last_weekly_check"]: kind -> NoStamp or time
    headers,    \* the header row of each worksheet: its normalized column names
    state_file, \* the state file on disk: NoFile, Corrupt or the JSON object saved last
    procs,      \* the call each user has in flight: Idle or [pc, ...], its position and locals
    last        \* the handler that ran last: [op, tg, out, sent]

vars == <<tab, cache, now, pending, timers, del_data, shown, last_weekly_check,
          state_file, procs, headers, last>>

----------------------------------------------------------------------------
(* Program constants *)

MAX_PASSENGERS == 4
CONFIRMATION_TIMEOUT_MINUTES == 60
DATA_CACHE_TTL == 60
MAX_RETRIES == 3
RETRY_DELAY_SECONDS == 2

(* Bounds of the model *)

MaxTicks == 1          \* how many times the clock advances
MaxBatch == 2          \* names typed in one passengers message
MaxTimers == 2         \* a weekly check runs only while fewer than MaxTimers jobs are armed
MaxFaultWrite == 2       \* the failing backend write is at most the MaxFaultWrite-th of a handler
MaxOpenDialogs == 1      \* delete conversations a user may find open when starting one
MaxInFlight == 2         \* handler tasks of one driver suspended before their clear-and-cascade
MaxFaultFetch == 2       \* the failing backend fetch is at most the MaxFaultFetch-th of a handler

----------------------------------------------------------------------------
(* Universe *)

DRIVERS_SHEET == "drivers"
EMPLOYEES_SHEET == "employees"
DRIVERS_PASSENGERS_SHEET == "drivers_passengers"
Tables == {DRIVERS_SHEET, EMPLOYEES_SHEET, DRIVERS_PASSENGERS_SHEET}

TgIds == {1, 2}

\* BotConfig.ADMIN_USERS: user 1 is the administrator
ADMIN_USERS == {1}
NoCache == [none |-> "cache"]
NoPending == [none |-> "pending"]
NoStamp == [none |-> "stamp"]
NoFile == [none |-> "file"]
Corrupt == [none |-> "json"]
NoData == [none |-> "data"]
Idle == [pc |-> "idle"]
None == [none |-> "value"]

\* str(tg_id), as written to the telegramID cells
Str(i) ==
    CASE i = 1 -> "1"
      [] i = 2 -> "2"
      [] i = 3 -> "3"
      [] OTHER -> "0"

\* models.parse_int_safe: '' and non-numeric text give the default 0
parse_int_safe(s) ==
    CASE s = "1" -> 1
      [] s = "2" -> 2
      [] s = "3" -> 3
      [] OTHER -> 0

\* models.normalize_text on the names of the universe: lower-case
\* (no name of the universe carries outer blanks, so strip changes nothing)
normalize_text(s) ==
    CASE s = "Ann" -> "ann"
      [] s = "ANN" -> "ann"
      [] s = "Bob" -> "bob"
      [] s = "Cy" -> "cy"
      [] s = "CY" -> "cy"
      [] s = "Dan" -> "dan"
      [] s = "Eve" -> "eve"
      [] s = "Zed" -> "zed"
      [] OTHER -> s

\* ShiftType.from_string on the shift texts of the universe: substring match on
\* the lower-cased text, night first
from_string(s) ==
    CASE s \in {"Night", "night"} -> "NIGHT"
      [] s \in {"Day", "day"} -> "DAY"
      [] OTHER -> "UNKNOWN"

\* ShiftType.to_display
to_display(sh) ==
    CASE sh = "DAY" -> "Day"
      [] sh = "NIGHT" -> "Night"
      [] OTHER -> ""

ShiftTypes == {"DAY", "NIGHT", "UNKNOWN"}

----------------------------------------------------------------------------
(* Sequence helpers *)

Range(s) == {s[i] : i \in 1..Len(s)}

\* the least / greatest member of a set of indices, 0 when there is none
MinOf(hits) == IF hits = {} THEN 0 ELSE CHOOSE i \in hits : \A j \in hits : i <= j
MaxOf(hits) == IF hits = {} THEN 0 ELSE CHOOSE i \in hits : \A j \in hits : i >= j

RECURSIVE DedupFrom(_, _, _)
\* names[i..] appended to acc, skipping a name whose normal form is already in acc
DedupFrom(names, i, acc) ==
    IF i > Len(names) THEN acc
    ELSE IF normalize_text(names[i]) \in {normalize_text(x) : x \in Range(acc)}
         THEN DedupFrom(names, i + 1, acc)
         ELSE DedupFrom(names, i + 1, Append(acc, names[i]))

----------------------------------------------------------------------------
(* The cache layer.  A store value S is [tab, cache, w, n]: the worksheets, *)
(* the data cache, and the number of backend writes and of backend fetches  *)
(* the running handler has attempted.  An environment e is [now, r, rk, w]: *)
(* the clock, the outcomes r of the attempts of a backend fetch, which      *)
(* fetch of the handler meets them (rk; 0: every fetch), and which backend  *)
(* write fails (w; 0: none).                                                *)

\* what one attempt of a fetch meets: the rows, APIError with code 429 or
\* with another code, SpreadsheetNotFound or another exception out of
\* ws.get_all_values(), or a spreadsheet or a worksheet that does not exist
\* when the worksheet is opened
AttemptOutcomes ==
    {"ok", "rate_limited", "api_error", "not_found", "error", "no_spreadsheet",
     "no_worksheet"}

\* the outcomes where the spreadsheet or the worksheet does not exist
Missing == {"not_found", "no_spreadsheet", "no_worksheet"}

\* SheetManager._get_worksheet: the worksheet, or the exception it raises;
\* SpreadsheetNotFound out of open_by_key is wrapped in SheetError,
\* WorksheetNotFound out of worksheet() is not caught
get_worksheet(outcome) ==
    CASE outcome = "no_spreadsheet" -> "SheetError"
      [] outcome = "no_worksheet" -> "WorksheetNotFound"
      [] OTHER -> "ws"

\* the exception one attempt raises inside the try of _fetch_with_retry
raised(outcome) ==
    IF get_worksheet(outcome) # "ws" THEN get_worksheet(outcome)
    ELSE CASE outcome \in {"rate_limited", "api_error"} -> "APIError"
           [] outcome = "not_found" -> "SpreadsheetNotFound"
           [] outcome = "error" -> "Exception"
           [] OTHER -> "none"

\* _fetch_with_retry: the except SpreadsheetNotFound clause re-raises at
\* once; APIError and every other exception go on to the next attempt
fails_at_once(outcome) == raised(outcome) = "SpreadsheetNotFound"

\* the outcomes of the successive attempts of one fetch
AttemptPlans == [1..(MAX_RETRIES + 1) -> AttemptOutcomes]
AllOk == [i \in 1..(MAX_RETRIES + 1) |-> "ok"]
AllFail == [i \in 1..(MAX_RETRIES + 1) |-> "error"]

\* fault seeded for C20: one attempt more
retries_exhausted_off(attempt) == attempt > MAX_RETRIES

\* _fetch_with_retry: for attempt in range(MAX_RETRIES) has run out
retries_exhausted(attempt) == attempt >= MAX_RETRIES

\* _fetch_with_retry, `wait` after the failure of attempt (0-based): the
\* longer delays for APIError with code 429, RETRY_DELAY_SECONDS doubled per
\* attempt otherwise
wait_after(outcome, attempt) ==
    IF raised(outcome) = "APIError" /\ outcome = "rate_limited"
    THEN (IF 10 * (2 ^ attempt) < 60 THEN 10 * (2 ^ attempt) ELSE 60)
    ELSE RETRY_DELAY_SECONDS * (2 ^ attempt)

\* fault seeded for C37: the delay is slept after the last attempt too
sleeps_off(attempt) == TRUE

\* _fetch_with_retry: time.sleep(wait) runs when attempt < MAX_RETRIES - 1
sleeps(attempt) == attempt < MAX_RETRIES - 1

RECURSIVE fetch_attempts(_, _, _, _)
\* _fetch_with_retry, the loop from attempt (0-based) on, after the sleeps
\* waits: [ok, data, attempts, waits]
fetch_attempts(rows, plan, attempt, waits) ==
    IF retries_exhausted(attempt)
    THEN [ok |-> FALSE, data |-> <<>>, attempts |-> attempt, waits |-> waits]
    ELSE IF plan[attempt + 1] = "ok"
    THEN [ok |-> TRUE, data |-> rows, attempts |-> attempt + 1, waits |-> waits]
    ELSE IF fails_at_once(plan[attempt + 1])
    THEN [ok |-> FALSE, data |-> <<>>, attempts |-> attempt + 1, waits |-> waits]
    ELSE fetch_attempts(rows, plan, attempt + 1,
                        IF sleeps(attempt)
                        THEN Append(waits, wait_after(plan[attempt + 1], attempt))
                        ELSE waits)

\* SheetManager._fetch_with_retry on a sheet holding rows
fetch_with_retry(rows, plan) == fetch_attempts(rows, plan, 0, <<>>)

\* the attempt outcomes the next backend fetch of the handler meets
plan_of(S, e) == IF e.rk \in {0, S.n + 1} THEN e.r ELSE AllOk

\* fault seeded for C23: an entry of age DATA_CACHE_TTL is still served
cache_valid_off(cached, t_now) ==
    cached # NoCache /\ (t_now - cached.ts) <= DATA_CACHE_TTL

\* _get_sheet_data, the test under the lock: an entry is there and is younger
\* than DATA_CACHE_TTL
cache_valid(cached, t_now) ==
    cached # NoCache /\ (t_now - cached.ts) < DATA_CACHE_TTL

\* SheetManager._get_sheet_data: [ok, data, S, attempts, waits]
get_sheet_data(S, t, e) ==
    LET cached == S.cache[t]
        fetched(b) ==
            IF ~b.ok
            THEN [ok |-> FALSE, data |-> <<>>, S |-> [S EXCEPT !.n = @ + 1],
                  attempts |-> b.attempts, waits |-> b.waits]
            ELSE [ok |-> TRUE, data |-> b.data,
                  S |-> [S EXCEPT !.n = @ + 1,
                                  !.cache[t] = [data |-> b.data, ts |-> e.now]],
                  attempts |-> b.attempts, waits |-> b.waits]
    IN  IF cache_valid(cached, e.now)
        THEN [ok |-> TRUE, data |-> cached.data, S |-> S, attempts |-> 0, waits |-> <<>>]
        ELSE fetched(fetch_with_retry(S.tab[t], plan_of(S, e)))

\* fault seeded for C3: a write leaves the cached rows in place
invalidate_cache_off(S, t) == S

\* SheetManager._invalidate_cache
invalidate_cache(S, t) == [S EXCEPT !.cache[t] = NoCache]

\* one backend write call (sheet.update / append_row / batch_update) that
\* replaces the rows of t by rows: it raises when it is the failing write
backend_write(S, t, rows, e) ==
    LET n == S.w + 1
    IN  IF e.w = n
        THEN [ok |-> FALSE, S |-> [S EXCEPT !.w = n]]
        ELSE [ok |-> TRUE, S |-> [S EXCEPT !.w = n, !.tab[t] = rows]]

\* the row list with row i replaced (a range write), or extended when i is
\* past the end
put_row(rows, i, row) ==
    IF i <= Len(rows) THEN [rows EXCEPT ![i] = row] ELSE Append(rows, row)

----------------------------------------------------------------------------
(* Entities built from rows (models.py).  row_index is the sheet row: data *)
(* row i is sheet row i + 1.                                               *)

\* Driver.from_dict
Driver_from_dict(row, idx) ==
    [name |-> row.Name, tg_id |-> parse_int_safe(row.telegramID),
     shift |-> from_string(row.Shift), is_active |-> (row.isActive = "TRUE"),
     row_index |-> idx]

\* Employee.from_dict; driver_tgid 0 stands for None (parse_int_safe(..) or None)
Employee_from_dict(row, idx) ==
    [name |-> row.Employee, phone |-> row.Phone, shift |-> from_string(row.Shift),
     rides_with |-> row.RidesWith, driver_tgid |-> parse_int_safe(row.telegramID),
     row_index |-> idx]

\* DriverPassengers.from_dict: the non-blank passenger cells, in column order
DriverPassengers_from_dict(row, idx) ==
    [driver_name |-> row.Name, driver_tgid |-> parse_int_safe(row.telegramID),
     shift |-> from_string(row.Shift),
     passengers |-> LET Filled(p) == p # "" IN SelectSeq(row.P, Filled),
     row_index |-> idx]

\* SheetManager._prepare_driver_row
prepare_driver_row(driver) ==
    [Name |-> driver.name, telegramID |-> Str(driver.tg_id),
     Shift |-> to_display(driver.shift),
     isActive |-> IF driver.is_active THEN "TRUE" ELSE "FALSE"]

\* SheetManager._prepare_driver_passengers_row: the list padded with blanks
\* to four cells; only the first four entries are written
prepare_driver_passengers_row(dp) ==
    LET padded == dp.passengers \o [i \in 1..(IF Len(dp.passengers) < 4 THEN 4 - Len(dp.passengers) ELSE 0) |-> ""]
    IN  [Name |-> dp.driver_name, telegramID |-> Str(dp.driver_tgid),
         Shift |-> to_display(dp.shift),
         P |-> <<padded[1], padded[2], padded[3], padded[4]>>]

----------------------------------------------------------------------------
(* Driver operations (sheets.py).  Each operation threads the store: the   *)
(* local operators take the result of the call the code makes at that      *)
(* point.                                                                  *)

\* col_map.get("telegramid") is not None: the header row of the sheet names
\* the identity column
has_identity_column(S, t) == "telegramid" \in S.hdr[t]

\* the row as _prepare_driver_row / _prepare_driver_passengers_row lay it out
\* under the header row: a value whose column is missing is not written
under_headers(S, t, row) ==
    IF has_identity_column(S, t) THEN row ELSE [row EXCEPT !.telegramID = ""]

\* SheetManager.get_driver: [ok, S, v]; ok = FALSE is a SheetError
get_driver(S, tg_id, e) ==
    LET read(r) ==
            LET i == MinOf({idx \in 1..Len(r.data) : r.data[idx].telegramID = Str(tg_id)})
            IN  IF ~r.ok THEN [ok |-> FALSE, S |-> r.S, v |-> None]
                ELSE IF ~has_identity_column(r.S, DRIVERS_SHEET)
                THEN [ok |-> TRUE, S |-> r.S, v |-> None]
                ELSE [ok |-> TRUE, S |-> r.S,
                      v |-> IF i = 0 THEN None ELSE Driver_from_dict(r.data[i], i + 1)]
    IN  read(get_sheet_data(S, DRIVERS_SHEET, e))

\* fault seeded for C4: the lookup never finds the driver
existing_driver_row_off(data, tg_id) == 0

\* the row of the drivers sheet that upsert_driver overwrites, 0 when it appends
existing_driver_row(data, tg_id) ==
    MinOf({idx \in 1..Len(data) : data[idx].telegramID = Str(tg_id)})

\* SheetManager.upsert_driver: [ok, S, is_new, row]
upsert_driver(S, driver, e) ==
    LET update_data == under_headers(S, DRIVERS_SHEET, prepare_driver_row(driver))
        written(wr, i, n) ==
            IF ~wr.ok THEN [ok |-> FALSE, S |-> wr.S, is_new |-> FALSE, row |-> 0]
            ELSE [ok |-> TRUE, S |-> invalidate_cache(wr.S, DRIVERS_SHEET),
                  is_new |-> (i = 0), row |-> IF i # 0 THEN i + 1 ELSE n + 2]
        found(r, i) ==
            IF ~r.ok THEN [ok |-> FALSE, S |-> r.S, is_new |-> FALSE, row |-> 0]
            ELSE written(backend_write(r.S, DRIVERS_SHEET,
                                       IF i # 0
                                       THEN put_row(r.S.tab[DRIVERS_SHEET], i, update_data)
                                       ELSE Append(r.S.tab[DRIVERS_SHEET], update_data), e),
                         i, Len(r.data))
        read(r) == found(r, existing_driver_row(r.data, driver.tg_id))
    IN  read(get_sheet_data(S, DRIVERS_SHEET, e))

----------------------------------------------------------------------------
(* Employee operations (sheets.py) *)

\* SheetManager.get_employee_by_name: the first row whose name matches
get_employee_by_name(S, name, e) ==
    LET read(r) ==
            LET i == MinOf({idx \in 1..Len(r.data) :
                              normalize_text(r.data[idx].Employee) = normalize_text(name)})
            IN  IF ~r.ok THEN [ok |-> FALSE, S |-> r.S, v |-> None]
                ELSE [ok |-> TRUE, S |-> r.S,
                      v |-> IF i = 0 THEN None ELSE Employee_from_dict(r.data[i], i + 1)]
    IN  read(get_sheet_data(S, EMPLOYEES_SHEET, e))

\* SheetManager.get_all_employees
get_all_employees(S, e) ==
    LET read(r) ==
            IF ~r.ok THEN [ok |-> FALSE, S |-> r.S, v |-> <<>>]
            ELSE [ok |-> TRUE, S |-> r.S,
                  v |-> [i \in 1..Len(r.data) |-> Employee_from_dict(r.data[i], i + 1)]]
    IN  read(get_sheet_data(S, EMPLOYEES_SHEET, e))

\* fault seeded for C35: the whole row is rewritten from the two values
set_employee_cells_off(rows, idx, rides_with, tgid_cell) ==
    IF idx - 1 \in 1..Len(rows)
    THEN [rows EXCEPT ![idx - 1] = [Employee |-> @.Employee, Phone |-> "", Shift |-> "",
                                    RidesWith |-> rides_with, telegramID |-> tgid_cell]]
    ELSE rows

\* the employees rows with cells D and E of sheet row idx set (batch_update)
set_employee_cells(rows, idx, rides_with, tgid_cell) ==
    IF idx - 1 \in 1..Len(rows)
    THEN [rows EXCEPT ![idx - 1].RidesWith = rides_with, ![idx - 1].telegramID = tgid_cell]
    ELSE rows

\* SheetManager.update_employee_driver: [S, success]; every exception,
\* a failed read included, is caught and reported as success = FALSE
update_employee_driver(S, employee_name, driver_name, driver_tgid, e) ==
    LET written(wr) ==
            IF ~wr.ok THEN [S |-> wr.S, success |-> FALSE]
            ELSE [S |-> invalidate_cache(wr.S, EMPLOYEES_SHEET), success |-> TRUE]
        found(g) ==
            IF ~g.ok THEN [S |-> g.S, success |-> FALSE]
            ELSE written(backend_write(g.S, EMPLOYEES_SHEET,
                     IF g.v = None
                     THEN Append(g.S.tab[EMPLOYEES_SHEET],
                                 [Employee |-> employee_name, Phone |-> "", Shift |-> "",
                                  RidesWith |-> driver_name,
                                  telegramID |-> Str(driver_tgid)])
                     ELSE set_employee_cells(g.S.tab[EMPLOYEES_SHEET], g.v.row_index,
                                             driver_name, Str(driver_tgid)), e))
    IN  found(get_employee_by_name(S, employee_name, e))

\* fault seeded for C5: the guard lets every employee through
still_rides_with_off(employee, only_if_driver_tgid) == TRUE

\* clear_employee_driver, the guard: the employee's driver reference is the
\* expected driver
still_rides_with(employee, only_if_driver_tgid) ==
    employee.driver_tgid = only_if_driver_tgid

\* SheetManager.clear_employee_driver(name, only_if_driver_tgid): [ok, S]
clear_employee_driver(S, employee_name, only_if_driver_tgid, e) ==
    LET written(wr) ==
            IF ~wr.ok THEN [ok |-> FALSE, S |-> wr.S]
            ELSE [ok |-> TRUE, S |-> invalidate_cache(wr.S, EMPLOYEES_SHEET)]
        found(g) ==
            IF ~g.ok THEN [ok |-> FALSE, S |-> g.S]
            ELSE IF g.v = None THEN [ok |-> TRUE, S |-> g.S]
            ELSE IF ~still_rides_with(g.v, only_if_driver_tgid) THEN [ok |-> TRUE, S |-> g.S]
            ELSE written(backend_write(g.S, EMPLOYEES_SHEET,
                             set_employee_cells(g.S.tab[EMPLOYEES_SHEET], g.v.row_index,
                                                "", ""), e))
    IN  found(get_employee_by_name(S, employee_name, e))

----------------------------------------------------------------------------
(* Driver-passengers operations (sheets.py) *)

\* SheetManager.get_driver_passengers
get_driver_passengers(S, tg_id, e) ==
    LET read(r) ==
            LET i == MinOf({idx \in 1..Len(r.data) : r.data[idx].telegramID = Str(tg_id)})
            IN  IF ~r.ok THEN [ok |-> FALSE, S |-> r.S, v |-> None]
                ELSE IF ~has_identity_column(r.S, DRIVERS_PASSENGERS_SHEET)
                THEN [ok |-> TRUE, S |-> r.S, v |-> None]
                ELSE [ok |-> TRUE, S |-> r.S,
                      v |-> IF i = 0 THEN None
                            ELSE DriverPassengers_from_dict(r.data[i], i + 1)]
    IN  read(get_sheet_data(S, DRIVERS_PASSENGERS_SHEET, e))

\* fault seeded for C33: the lookup never finds the driver's row
existing_passengers_row_off(data, tg_id) == 0

\* upsert_driver_passengers, existing_row: the first row of the rows read
\* whose identity cell is str(tg_id), 0 when there is none
existing_passengers_row(data, tg_id) ==
    MinOf({idx \in 1..Len(data) : data[idx].telegramID = Str(tg_id)})

\* SheetManager.upsert_driver_passengers: [ok, S]
upsert_driver_passengers(S, dp, e) ==
    LET row_data == under_headers(S, DRIVERS_PASSENGERS_SHEET,
                                  prepare_driver_passengers_row(dp))
        written(wr) ==
            IF ~wr.ok THEN [ok |-> FALSE, S |-> wr.S]
            ELSE [ok |-> TRUE, S |-> invalidate_cache(wr.S, DRIVERS_PASSENGERS_SHEET)]
        read(r) ==
            LET i == existing_passengers_row(r.data, dp.driver_tgid)
            IN  IF ~r.ok THEN [ok |-> FALSE, S |-> r.S]
                ELSE written(backend_write(r.S, DRIVERS_PASSENGERS_SHEET,
                         IF i # 0
                         THEN put_row(r.S.tab[DRIVERS_PASSENGERS_SHEET], i, row_data)
                         ELSE Append(r.S.tab[DRIVERS_PASSENGERS_SHEET], row_data), e))
    IN  read(get_sheet_data(S, DRIVERS_PASSENGERS_SHEET, e))

\* SheetManager.clear_driver_passengers: [ok, S, cleared]
clear_driver_passengers(S, tg_id, e) ==
    LET written(wr, cleared) ==
            IF ~wr.ok THEN [ok |-> FALSE, S |-> wr.S, cleared |-> <<>>]
            ELSE [ok |-> TRUE, S |-> invalidate_cache(wr.S, DRIVERS_PASSENGERS_SHEET),
                  cleared |-> cleared]
        found(g) ==
            IF ~g.ok THEN [ok |-> FALSE, S |-> g.S, cleared |-> <<>>]
            ELSE IF g.v = None THEN [ok |-> TRUE, S |-> g.S, cleared |-> <<>>]
            ELSE written(backend_write(g.S, DRIVERS_PASSENGERS_SHEET,
                             IF g.v.row_index - 1 \in 1..Len(g.S.tab[DRIVERS_PASSENGERS_SHEET])
                             THEN [g.S.tab[DRIVERS_PASSENGERS_SHEET]
                                      EXCEPT ![g.v.row_index - 1].P = <<"", "", "", "">>]
                             ELSE g.S.tab[DRIVERS_PASSENGERS_SHEET], e),
                         g.v.passengers)
    IN  found(get_driver_passengers(S, tg_id, e))

\* fault seeded for C38: the row is rewritten without the name whether or not
\* the name was in it
remove_passenger_off(S, tg_id, passenger_name, e) ==
    LET g == get_driver_passengers(S, tg_id, e)
        Other(p) == normalize_text(p) # normalize_text(passenger_name)
        u == upsert_driver_passengers(g.S, [g.v EXCEPT !.passengers = SelectSeq(@, Other)], e)
    IN  IF ~g.ok THEN [ok |-> FALSE, S |-> g.S, removed |-> FALSE]
        ELSE IF g.v = None THEN [ok |-> TRUE, S |-> g.S, removed |-> FALSE]
        ELSE [ok |-> u.ok, S |-> u.S, removed |-> u.ok]

\* SheetManager.remove_passenger: [ok, S, removed]
remove_passenger(S, tg_id, passenger_name, e) ==
    LET saved(u) == [ok |-> u.ok, S |-> u.S, removed |-> u.ok]
        found(g) ==
            IF ~g.ok THEN [ok |-> FALSE, S |-> g.S, removed |-> FALSE]
            ELSE IF g.v = None THEN [ok |-> TRUE, S |-> g.S, removed |-> FALSE]
            ELSE LET k == MinOf({idx \in 1..Len(g.v.passengers) :
                                   normalize_text(g.v.passengers[idx])
                                       = normalize_text(passenger_name)})
                     kept == [j \in 1..(Len(g.v.passengers) - 1) |->
                                 IF j < k THEN g.v.passengers[j] ELSE g.v.passengers[j + 1]]
                 IN  IF k = 0 THEN [ok |-> TRUE, S |-> g.S, removed |-> FALSE]
                     ELSE saved(upsert_driver_passengers(
                                    g.S, [g.v EXCEPT !.passengers = kept], e))
    IN  found(get_driver_passengers(S, tg_id, e))

----------------------------------------------------------------------------
(* Validation (sheets.py) *)

\* fault seeded for C8: Unknown is no wildcard
shift_mismatch_off(driver_shift, employee_shift) == driver_shift # employee_shift

\* validate_passengers, the shift test: both shifts known and different
shift_mismatch(driver_shift, employee_shift) ==
    /\ driver_shift # "UNKNOWN"
    /\ employee_shift # "UNKNOWN"
    /\ driver_shift # employee_shift

\* validate_passengers, the driver-reference test: a reference to another driver
claimed_by_other(employee, driver_tgid) ==
    employee.driver_tgid # 0 /\ employee.driver_tgid # driver_tgid

\* validate_passengers, the rides-with test: whether the label calls for a
\* look at the driver's name
label_differs(employee, driver_tgid) ==
    employee.rides_with # ""
        /\ normalize_text(employee.rides_with) # normalize_text(Str(driver_tgid))

\* employee_map[name_norm]: the last employee with a non-blank name of that
\* normal form (a dict comprehension keeps the last value of a key), or 0
employee_map_index(all, name) ==
    MaxOf({idx \in 1..Len(all) :
              all[idx].name # "" /\ normalize_text(all[idx].name) = normalize_text(name)})

\* acc with one more error
reject(acc, name, reason) ==
    [acc EXCEPT !.errors = Append(@, [name |-> name, reason |-> reason])]

\* fault seeded for C9: the pass skips the two ownership tests
validate_one_off(acc, all, driver_tgid, driver_shift, name, e) ==
    LET k == employee_map_index(all, name)
    IN  IF k = 0 THEN reject(acc, name, "not_found")
        ELSE IF shift_mismatch(driver_shift, all[k].shift)
             THEN reject(acc, name, "shift_mismatch")
        ELSE [acc EXCEPT !.valid = Append(@, all[k])]

\* one pass of the loop of validate_passengers over `name`;
\* acc = [ok, S, valid, errors]
validate_one(acc, all, driver_tgid, driver_shift, name, e) ==
    LET looked_up(d, employee) ==
            IF ~d.ok THEN [acc EXCEPT !.ok = FALSE, !.S = d.S]
            ELSE IF d.v # None
                    /\ normalize_text(employee.rides_with) # normalize_text(d.v.name)
                 THEN [reject(acc, name, "already_claimed") EXCEPT !.S = d.S]
                 ELSE [acc EXCEPT !.S = d.S, !.valid = Append(@, employee)]
        mapped(k) ==
            IF k = 0 THEN reject(acc, name, "not_found")
            ELSE IF shift_mismatch(driver_shift, all[k].shift)
                 THEN reject(acc, name, "shift_mismatch")
            ELSE IF claimed_by_other(all[k], driver_tgid)
                 THEN reject(acc, name, "already_claimed")
            ELSE IF label_differs(all[k], driver_tgid)
                 THEN looked_up(get_driver(acc.S, driver_tgid, e), all[k])
                 ELSE [acc EXCEPT !.valid = Append(@, all[k])]
    IN  mapped(employee_map_index(all, name))

RECURSIVE validate_loop(_, _, _, _, _, _, _)

\* fault seeded for C13: the loop ends at the first rejection
validate_loop_off(acc, all, driver_tgid, driver_shift, names, i, e) ==
    IF i > Len(names) \/ ~acc.ok \/ acc.errors # <<>> THEN acc
    ELSE validate_loop(validate_one(acc, all, driver_tgid, driver_shift, names[i], e),
                       all, driver_tgid, driver_shift, names, i + 1, e)

\* validate_passengers, for name in passenger_names
validate_loop(acc, all, driver_tgid, driver_shift, names, i, e) ==
    IF i > Len(names) \/ ~acc.ok THEN acc
    ELSE validate_loop(validate_one(acc, all, driver_tgid, driver_shift, names[i], e),
                       all, driver_tgid, driver_shift, names, i + 1, e)

\* SheetManager.validate_passengers: [ok, S, valid, errors]
validate_passengers(S, driver_tgid, driver_shift, passenger_names, e) ==
    LET listed(a) ==
            IF ~a.ok THEN [ok |-> FALSE, S |-> a.S, valid |-> <<>>, errors |-> <<>>]
            ELSE validate_loop([ok |-> TRUE, S |-> a.S, valid |-> <<>>, errors |-> <<>>],
                               a.v, driver_tgid, driver_shift, passenger_names, 1, e)
    IN  listed(get_all_employees(S, e))

\* SheetManager.get_drivers_for_shift: [ok, S, v]
get_drivers_for_shift(S, shift, e) ==
    LET OnShift(d) == d.tg_id # 0 /\ d.shift = shift
        read(r) ==
            IF ~r.ok THEN [ok |-> FALSE, S |-> r.S, v |-> <<>>]
            ELSE [ok |-> TRUE, S |-> r.S,
                  v |-> SelectSeq([i \in 1..Len(r.data) |-> Driver_from_dict(r.data[i], i + 1)],
                                  OnShift)]
    IN  read(get_sheet_data(S, DRIVERS_SHEET, e))

----------------------------------------------------------------------------
(* Conversation handlers (handlers.py).  A handler result is [S, out, sent, *)
(* ...]: the store it leaves, its outcome and the messages it sent.        *)

\* BotHandlers.add_driver_plates for the user_data gathered by the earlier
\* steps (name, shift text)
add_driver_plates(S, tg, name, shift_text, e) ==
    LET driver == [name |-> name, tg_id |-> tg, shift |-> from_string(shift_text),
                   is_active |-> TRUE]
        linked(r, is_new) ==
            IF ~r.success
            THEN [S |-> r.S, out |-> "update_failed", sent |-> <<"update_error">>]
            ELSE [S |-> r.S, out |-> IF is_new THEN "added" ELSE "updated",
                  sent |-> <<IF is_new THEN "driver_added" ELSE "driver_updated">>]
        saved(u) ==
            IF ~u.ok THEN [S |-> u.S, out |-> "sheet_error", sent |-> <<"save_error">>]
            ELSE linked(update_employee_driver(u.S, driver.name, driver.name,
                                               driver.tg_id, e), u.is_new)
    IN  saved(upsert_driver(S, driver, e))

\* passengers_input, "Remove duplicates while preserving order"
unique_names_of(names) == DedupFrom(names, 1, <<>>)

\* fault seeded for C34: the new names are appended as they come
merge_passengers_off(existing_passengers, unique_names) ==
    existing_passengers \o unique_names

\* passengers_input, "Merge: existing + new (no duplicates)"
merge_passengers(existing_passengers, unique_names) ==
    DedupFrom(unique_names, 1, existing_passengers)

\* fault seeded for C2: the size test never refuses
too_many_off(merged) == FALSE

\* passengers_input, the size test of the merged list
too_many(merged) == Len(merged) > MAX_PASSENGERS

RECURSIVE update_employees_loop(_, _, _, _, _)
\* passengers_input, "Update employees table": stops at the first failure;
\* acc = [S, success]
update_employees_loop(acc, names, i, driver, e) ==
    IF i > Len(names) \/ ~acc.success THEN acc
    ELSE update_employees_loop(
             update_employee_driver(acc.S, names[i], driver.name, driver.tg_id, e),
             names, i + 1, driver, e)

\* fault seeded for C32: a failed link puts the sheets back as they were
commit_passengers_off(S, driver, unique_names, merged, e) ==
    LET dp == [driver_name |-> driver.name, driver_tgid |-> driver.tg_id,
               shift |-> driver.shift, passengers |-> merged]
        u == upsert_driver_passengers(S, dp, e)
        l == update_employees_loop([S |-> u.S, success |-> TRUE], unique_names, 1, driver, e)
        r == update_employee_driver(l.S, driver.name, driver.name, driver.tg_id, e)
    IN  IF ~u.ok THEN [S |-> u.S, out |-> "sheet_error", sent |-> <<"save_error">>]
        ELSE IF ~l.success \/ ~r.success
             THEN [S |-> [r.S EXCEPT !.tab = S.tab], out |-> "update_failed",
                   sent |-> <<"update_error">>]
        ELSE [S |-> r.S, out |-> "ok", sent |-> <<"passengers_added">>]

\* passengers_input, from "Save to drivers_passengers" on
commit_passengers(S, driver, unique_names, merged, e) ==
    LET dp == [driver_name |-> driver.name, driver_tgid |-> driver.tg_id,
               shift |-> driver.shift, passengers |-> merged]
        self_linked(r) ==
            IF ~r.success
            THEN [S |-> r.S, out |-> "update_failed", sent |-> <<"update_error">>]
            ELSE [S |-> r.S, out |-> "ok", sent |-> <<"passengers_added">>]
        linked(l) ==
            IF ~l.success
            THEN [S |-> l.S, out |-> "update_failed", sent |-> <<"update_error">>]
            ELSE self_linked(update_employee_driver(l.S, driver.name, driver.name,
                                                    driver.tg_id, e))
        saved(u) ==
            IF ~u.ok THEN [S |-> u.S, out |-> "sheet_error", sent |-> <<"save_error">>]
            ELSE linked(update_employees_loop([S |-> u.S, success |-> TRUE],
                                              unique_names, 1, driver, e))
    IN  saved(upsert_driver_passengers(S, dp, e))

\* fault seeded for C14: the reasons are ignored
any_rejection_off(errors) == FALSE

\* passengers_input, "if errors:"
any_rejection(errors) == errors # <<>>

\* BotHandlers.passengers_input for the typed names: [S, out, sent, held_back],
\* held_back the number of candidates validate_passengers accepted that the
\* handler did not commit
passengers_input(S, tg, names, e) ==
    LET unique_names == unique_names_of(names)
        early(S1, out, msg) ==
            [S |-> S1, out |-> out, sent |-> <<msg>>, held_back |-> 0]
        committed(c) ==
            [S |-> c.S, out |-> c.out, sent |-> c.sent, held_back |-> 0]
        listed(g, driver) ==
            LET existing_passengers == IF g.v = None THEN <<>> ELSE g.v.passengers
                merged == merge_passengers(existing_passengers, unique_names)
            IN  IF ~g.ok THEN early(g.S, "sheet_error", "save_error")
                ELSE IF too_many(merged)
                     THEN [S |-> g.S, out |-> "too_many", sent |-> <<"max_passengers">>,
                           held_back |-> Len(unique_names)]
                ELSE committed(commit_passengers(g.S, driver, unique_names, merged, e))
        validated(v, driver) ==
            IF ~v.ok THEN early(v.S, "sheet_error", "save_error")
            ELSE IF any_rejection(v.errors)
                 THEN [S |-> v.S, out |-> "rejected",
                       sent |-> [i \in 1..Len(v.errors) |-> v.errors[i].reason]
                                    \o <<"try_again">>,
                       held_back |-> Len(v.valid)]
            ELSE listed(get_driver_passengers(v.S, driver.tg_id, e), driver)
        found(d) ==
            IF ~d.ok THEN early(d.S, "sheet_error", "save_error")
            ELSE IF d.v = None THEN early(d.S, "not_driver", "not_driver")
            ELSE IF unique_names = <<>> THEN early(d.S, "empty", "empty")
            ELSE IF Len(unique_names) > MAX_PASSENGERS
                 THEN early(d.S, "too_many", "max_passengers")
            ELSE validated(validate_passengers(d.S, d.v.tg_id, d.v.shift, unique_names, e),
                           d.v)
    IN  found(get_driver(S, tg, e))

\* passengers_input up to and including "if errors:": [S, out, sent, driver,
\* names]; out = "validated" when the handler goes on to save
passengers_checked(S, tg, names, e) ==
    LET unique_names == unique_names_of(names)
        early(S1, out, sent) ==
            [S |-> S1, out |-> out, sent |-> sent, driver |-> None, names |-> <<>>]
        validated(v, driver) ==
            IF ~v.ok THEN early(v.S, "sheet_error", <<"save_error">>)
            ELSE IF any_rejection(v.errors)
                 THEN early(v.S, "rejected",
                            [i \in 1..Len(v.errors) |-> v.errors[i].reason] \o <<"try_again">>)
            ELSE [S |-> v.S, out |-> "validated", sent |-> <<>>, driver |-> driver,
                  names |-> unique_names]
        found(d) ==
            IF ~d.ok THEN early(d.S, "sheet_error", <<"save_error">>)
            ELSE IF d.v = None THEN early(d.S, "not_driver", <<"not_driver">>)
            ELSE IF unique_names = <<>> THEN early(d.S, "empty", <<"empty">>)
            ELSE IF Len(unique_names) > MAX_PASSENGERS
                 THEN early(d.S, "too_many", <<"max_passengers">>)
            ELSE validated(validate_passengers(d.S, d.v.tg_id, d.v.shift, unique_names, e),
                           d.v)
    IN  found(get_driver(S, tg, e))

\* fault seeded for C25: the save validates the names once more
passengers_commit_off(S, driver, unique_names, e) ==
    LET v == validate_passengers(S, driver.tg_id, driver.shift, unique_names, e)
        g == get_driver_passengers(v.S, driver.tg_id, e)
    IN  IF ~v.ok \/ ~g.ok THEN [S |-> g.S, out |-> "sheet_error", sent |-> <<"save_error">>]
        ELSE IF any_rejection(v.errors)
             THEN [S |-> g.S, out |-> "rejected", sent |-> <<"try_again">>]
        ELSE LET c == commit_passengers(g.S, driver, unique_names,
                          merge_passengers(IF g.v = None THEN <<>> ELSE g.v.passengers,
                                           unique_names), e)
             IN  [S |-> c.S, out |-> c.out, sent |-> c.sent]

\* passengers_input from "Get existing passengers" on, for the driver and the
\* names that passed: [S, out, sent]
passengers_commit(S, driver, unique_names, e) ==
    LET listed(g) ==
            LET existing_passengers == IF g.v = None THEN <<>> ELSE g.v.passengers
                merged == merge_passengers(existing_passengers, unique_names)
                committed(c) == [S |-> c.S, out |-> c.out, sent |-> c.sent]
            IN  IF ~g.ok THEN [S |-> g.S, out |-> "sheet_error", sent |-> <<"save_error">>]
                ELSE IF too_many(merged)
                     THEN [S |-> g.S, out |-> "too_many", sent |-> <<"max_passengers">>]
                ELSE committed(commit_passengers(g.S, driver, unique_names, merged, e))
    IN  listed(get_driver_passengers(S, driver.tg_id, e))

\* BotHandlers.delete_start: [S, out, sent, data]
delete_start(S, tg, e) ==
    LET listed(g) ==
            IF ~g.ok
            THEN [S |-> g.S, out |-> "sheet_error", sent |-> <<"access_error">>,
                  data |-> NoData]
            ELSE IF g.v = None \/ g.v.passengers = <<>>
            THEN [S |-> g.S, out |-> "no_passengers", sent |-> <<"no_passengers">>,
                  data |-> NoData]
            ELSE [S |-> g.S, out |-> "ask_name", sent |-> <<"your_passengers">>,
                  data |-> [passengers |-> g.v.passengers]]
        found(d) ==
            IF ~d.ok
            THEN [S |-> d.S, out |-> "sheet_error", sent |-> <<"access_error">>,
                  data |-> NoData]
            ELSE IF d.v = None
            THEN [S |-> d.S, out |-> "not_driver", sent |-> <<"not_driver">>,
                  data |-> NoData]
            ELSE listed(get_driver_passengers(d.S, tg, e))
    IN  found(get_driver(S, tg, e))

\* BotHandlers.delete_input for a user in DEL_INPUT with user_data `data`:
\* [S, out, sent, data]
delete_input(S, tg, name, data, e) ==
    LET unlinked(c) ==
            IF ~c.ok
            THEN [S |-> c.S, out |-> "sheet_error", sent |-> <<"delete_error">>,
                  data |-> NoData]
            ELSE [S |-> c.S, out |-> "removed", sent |-> <<"passenger_removed">>,
                  data |-> NoData]
        removed(r) ==
            IF ~r.ok
            THEN [S |-> r.S, out |-> "sheet_error", sent |-> <<"delete_error">>,
                  data |-> NoData]
            ELSE IF ~r.removed
            THEN [S |-> r.S, out |-> "not_removed", sent |-> <<"not_found">>, data |-> data]
            ELSE unlinked(clear_employee_driver(r.S, name, tg, e))
    IN  IF normalize_text(name) \notin {normalize_text(p) : p \in Range(data.passengers)}
        THEN [S |-> S, out |-> "not_in_list", sent |-> <<"not_in_list">>, data |-> data]
        ELSE removed(remove_passenger(S, tg, name, e))

----------------------------------------------------------------------------
(* Pending confirmations (persistence.py) *)

\* fault seeded for C6: every user counts as asked
has_pending_confirmation_off(pend, tg_id) == TRUE

\* StateManager.has_pending_confirmation
has_pending_confirmation(pend, tg_id) == pend[tg_id] # NoPending

\* StateManager.add_pending_confirmation
add_pending_confirmation(pend, tg_id, shift_kind, t) ==
    [pend EXCEPT ![tg_id] = [shift_kind |-> shift_kind, timestamp |-> t]]

\* fault seeded for C10: the entry stays
remove_pending_confirmation_off(pend, tg_id) == pend

\* StateManager.remove_pending_confirmation
remove_pending_confirmation(pend, tg_id) == [pend EXCEPT ![tg_id] = NoPending]

\* StateManager.update_last_weekly_check
update_last_weekly_check(lwc, shift_kind, t) ==
    [lwc EXCEPT ![shift_kind] = [isoformat |-> t]]

\* json.dump(self._state): the two objects as sets of <<key, value>> members,
\* the keys of the pending confirmations being str(tg_id)
dump_state(pend, lwc) ==
    [pending_confirmations |->
         {<<Str(tg), pend[tg]>> : tg \in {u \in DOMAIN pend : pend[u] # NoPending}},
     last_weekly_check |->
         {<<k, lwc[k]>> : k \in {x \in DOMAIN lwc : lwc[x] # NoStamp}}]

\* what open(state_file, 'w') and json.dump do: write all, fail before the
\* file is touched, or fail after it was truncated
SaveOutcomes == {"ok", "open_failed", "write_failed"}

\* fault seeded for C19: nothing is written
save_state_off(file, pend, lwc, io) == file

\* StateManager._save: the file after the call; a failure is logged only
save_state(file, pend, lwc, io) ==
    CASE io = "ok" -> dump_state(pend, lwc)
      [] io = "open_failed" -> file
      [] OTHER -> Corrupt

\* StateManager.__init__ / _load, the pending confirmations: the defaults,
\* replaced by what a readable file holds
load_pending(file) ==
    [tg \in TgIds |->
        IF file \in {NoFile, Corrupt} THEN NoPending
        ELSE LET hits == {m \in file.pending_confirmations : m[1] = Str(tg)}
             IN  IF hits = {} THEN NoPending ELSE (CHOOSE m \in hits : TRUE)[2]]

\* StateManager.__init__ / _load, the last weekly checks
load_last_weekly_check(file) ==
    [k \in {"day", "night"} |->
        IF file \in {NoFile, Corrupt} THEN NoStamp
        ELSE LET hits == {m \in file.last_weekly_check : m[1] = k}
             IN  IF hits = {} THEN NoStamp ELSE (CHOOSE m \in hits : TRUE)[2]]

----------------------------------------------------------------------------
(* Weekly check (handlers.py) *)

\* job_queue.run_once(self.weekly_timeout, when = CONFIRMATION_TIMEOUT_MINUTES)
run_once(tms, tg_id, t) ==
    tms (+) SetToBag({[tg |-> tg_id, due |-> t + CONFIRMATION_TIMEOUT_MINUTES * 60]})

\* fault seeded for C7: the jobs stay armed
remove_jobs_by_name_off(tms, tg_id) == tms

\* job.schedule_removal() for every job named weekly_timeout_<tg_id>
remove_jobs_by_name(tms, tg_id) ==
    LET keep == {j \in BagToSet(tms) : j.tg # tg_id}
    IN  [j \in keep |-> tms[j]]

\* fault seeded for C17: the check runs on every day
weekday_gate_closed_off(weekday, is_manual) == FALSE

\* weekly_check, the Sunday guard
weekday_gate_closed(weekday, is_manual) == weekday # 6 /\ ~is_manual

\* fault seeded for C15: a failed send goes unnoticed
send_message_failed_off(tg_id, send_fails) == FALSE

\* weekly_check, context.bot.send_message raised for the chats send_fails
send_message_failed(tg_id, send_fails) == tg_id \in send_fails

\* weekly_check, one pass of the loop over the drivers, g the driver's
\* passengers row as read
ask_driver(acc, driver, g, shift_kind_str, send_fails, e) ==
    IF ~g.ok THEN [acc EXCEPT !.ok = FALSE, !.S = g.S]
    ELSE IF send_message_failed(driver.tg_id, send_fails) THEN [acc EXCEPT !.S = g.S]
    ELSE [acc EXCEPT
             !.S = g.S,
             !.pending = add_pending_confirmation(@, driver.tg_id, shift_kind_str, e.now),
             !.timers = run_once(@, driver.tg_id, e.now),
             !.prompted = Append(@, [to |-> driver.tg_id,
                                     passengers |-> IF g.v = None THEN <<>>
                                                    ELSE g.v.passengers])]

RECURSIVE weekly_check_loop(_, _, _, _, _, _)
\* weekly_check, the loop over the drivers; acc = [ok, S, pending, timers,
\* prompted].  A SheetError of get_driver_passengers leaves the loop.
weekly_check_loop(acc, drivers, i, shift_kind_str, send_fails, e) ==
    IF i > Len(drivers) \/ ~acc.ok THEN acc
    ELSE weekly_check_loop(
             ask_driver(acc, drivers[i], get_driver_passengers(acc.S, drivers[i].tg_id, e),
                        shift_kind_str, send_fails, e),
             drivers, i + 1, shift_kind_str, send_fails, e)

\* BotHandlers.weekly_check: [S, pending, timers, last_weekly_check, out,
\* prompted, saves], saves the number of times the state file was rewritten
weekly_check(S, pend, tms, lwc, shift_kind_str, is_manual, weekday, send_fails, e) ==
    LET asked(l) ==
            [S |-> l.S, pending |-> l.pending, timers |-> l.timers,
             last_weekly_check |-> IF l.ok
                                   THEN update_last_weekly_check(lwc, shift_kind_str, e.now)
                                   ELSE lwc,
             out |-> IF l.ok THEN "done" ELSE "sheet_error", prompted |-> l.prompted,
             saves |-> Len(l.prompted) + (IF l.ok THEN 1 ELSE 0)]
        listed(ds) ==
            IF ~ds.ok
            THEN [S |-> ds.S, pending |-> pend, timers |-> tms, last_weekly_check |-> lwc,
                  out |-> "sheet_error", prompted |-> <<>>, saves |-> 0]
            ELSE asked(weekly_check_loop([ok |-> TRUE, S |-> ds.S, pending |-> pend,
                                          timers |-> tms, prompted |-> <<>>],
                                         ds.v, 1, shift_kind_str, send_fails, e))
    IN  IF weekday_gate_closed(weekday, is_manual)
        THEN [S |-> S, pending |-> pend, timers |-> tms, last_weekly_check |-> lwc,
              out |-> "skipped", prompted |-> <<>>, saves |-> 0]
        ELSE listed(get_drivers_for_shift(S, from_string(shift_kind_str), e))

\* fault seeded for C18: every caller passes
not_admin_off(user_id) == FALSE

\* force_weekly_check: update.effective_user.id not in self.config.ADMIN_USERS
not_admin(user_id) == user_id \notin ADMIN_USERS

\* BotHandlers.force_weekly_check: [S, pending, timers, last_weekly_check, out,
\* sent, prompted, saves]; the manual check of the day shift, then of the
\* night shift
force_weekly_check(S, pend, tms, lwc, user_id, weekday, send_fails, e) ==
    LET both(d, n) ==
            [S |-> n.S, pending |-> n.pending, timers |-> n.timers,
             last_weekly_check |-> n.last_weekly_check, out |-> "forced",
             sent |-> <<"started_manually">>, prompted |-> d.prompted \o n.prompted,
             saves |-> d.saves + n.saves]
        night(d) ==
            both(d, weekly_check(d.S, d.pending, d.timers, d.last_weekly_check, "night", TRUE,
                                 weekday, send_fails, e))
    IN  IF not_admin(user_id)
        THEN [S |-> S, pending |-> pend, timers |-> tms, last_weekly_check |-> lwc,
              out |-> "denied", sent |-> <<"no_access">>, prompted |-> <<>>, saves |-> 0]
        ELSE night(weekly_check(S, pend, tms, lwc, "day", TRUE, weekday, send_fails, e))

\* fault seeded for C11: the employees are left as they are
clear_employees_loop_off(acc, cleared, i, tg_id, e) == acc

RECURSIVE clear_employees_loop(_, _, _, _, _)
\* "Clear employee assignments": stops at the first SheetError; acc = [ok, S]
clear_employees_loop(acc, cleared, i, tg_id, e) ==
    IF i > Len(cleared) \/ ~acc.ok THEN acc
    ELSE clear_employees_loop(clear_employee_driver(acc.S, cleared[i], tg_id, e),
                              cleared, i + 1, tg_id, e)

\* weekly_timeout / weekly_answer_handler: "Clear passengers" and
\* "Clear employee assignments": [ok, S, cleared]
clear_and_cascade(S, tg_id, e) ==
    LET unlinked(l, cleared) == [ok |-> l.ok, S |-> l.S, cleared |-> cleared]
        emptied(c) ==
            IF ~c.ok THEN [ok |-> FALSE, S |-> c.S, cleared |-> <<>>]
            ELSE unlinked(clear_employees_loop([ok |-> TRUE, S |-> c.S], c.cleared, 1,
                                               tg_id, e), c.cleared)
    IN  emptied(clear_driver_passengers(S, tg_id, e))

\* BotHandlers.weekly_timeout: [S, pending, out, sent]
weekly_timeout(S, pend, tg_id, e) ==
    LET done(c) ==
            IF ~c.ok
            THEN [S |-> c.S, pending |-> remove_pending_confirmation(pend, tg_id),
                  out |-> "error", sent |-> <<>>]
            ELSE [S |-> c.S, pending |-> remove_pending_confirmation(pend, tg_id),
                  out |-> "cleared", sent |-> <<"timeout_cleared">>]
    IN  IF ~has_pending_confirmation(pend, tg_id)
        THEN [S |-> S, pending |-> pend, out |-> "noop", sent |-> <<>>]
        ELSE done(clear_and_cascade(S, tg_id, e))

\* update.message.text.strip().lower() on the texts the handler's filter lets
\* through ("Da" / "Net" stand for the Cyrillic yes / no)
lower_text(text) ==
    CASE text = "Da" -> "da"
      [] text = "Net" -> "net"
      [] OTHER -> text

\* BotHandlers.weekly_answer_handler: [S, pending, timers, out, sent]
weekly_answer_handler(S, pend, tms, tg_id, raw_text, e) ==
    LET text == lower_text(raw_text)
        pend2 == remove_pending_confirmation(pend, tg_id)
        tms2 == remove_jobs_by_name(tms, tg_id)
        done(c) ==
            IF c.ok
            THEN [S |-> c.S, pending |-> pend2, timers |-> tms2, out |-> "cleared",
                  sent |-> <<"record_cleared">>]
            ELSE [S |-> c.S, pending |-> pend2, timers |-> tms2, out |-> "error",
                  sent |-> <<"clear_error">>]
    IN  IF ~has_pending_confirmation(pend, tg_id)
        THEN [S |-> S, pending |-> pend, timers |-> tms, out |-> "noop", sent |-> <<>>]
        ELSE IF text = "da"
        THEN [S |-> S, pending |-> pend2, timers |-> tms2, out |-> "confirmed",
              sent |-> <<"nothing_changed">>]
        ELSE IF text = "net"
        THEN done(clear_and_cascade(S, tg_id, e))
        ELSE [S |-> S, pending |-> pend2, timers |-> tms2, out |-> "other", sent |-> <<>>]

----------------------------------------------------------------------------------------------------------------------------------------
(* Inputs *)

TypedNames == {"Ann", "Cy", "Zed"}
ShiftButtons == {"Day", "Night"}
ShiftKinds == {"day", "night"}
AnswerTexts == {"Da", "da", "Net", "net"}
Weekdays == {5, 6}

\* datetime.weekday(): Monday is 0, Sunday is 6
DaysOfWeek == 0..6

\* the name lists a passengers message can carry, over the names N
BatchesOver(N) == UNION {[1..n -> N] : n \in 1..MaxBatch}

\* what the backend does during one handler: every fetch fails, or the w-th
\* write fails, or nothing fails
NoFault == [r |-> AllOk, rk |-> 0, w |-> 0]
Faults ==
    {NoFault, [r |-> AllFail, rk |-> 0, w |-> 0]}
        \cup {[r |-> AllOk, rk |-> 0, w |-> k] : k \in 1..MaxFaultWrite}

\* one fetch of the handler fails, the others succeed
FetchFaults == {[r |-> AllFail, rk |-> k, w |-> 0] : k \in 1..MaxFaultFetch}

Env(f) == [now |-> now, r |-> f.r, rk |-> f.rk, w |-> f.w]
Store == [tab |-> tab, cache |-> cache, w |-> 0, n |-> 0, hdr |-> headers]

TimeoutSeconds == CONFIRMATION_TIMEOUT_MINUTES * 60
TicksAt(t) == (t \div TimeoutSeconds) + ((t % TimeoutSeconds) \div (DATA_CACHE_TTL \div 2))

----------------------------------------------------------------------------
(* Initial state: the sheets as seeded by hand, nothing cached, no          *)
(* confirmation pending.  Driver 2 is a hand-entered row without a shift.   *)

EmployeeRow(name, phone, shift) ==
    [Employee |-> name, Phone |-> phone, Shift |-> shift, RidesWith |-> "", telegramID |-> ""]

InitEmployees ==
    << EmployeeRow("Ann", "555-1", "Day"), EmployeeRow("Cy", "", "") >>

InitDrivers ==
    << [Name |-> "Bob", telegramID |-> "2", Shift |-> "", isActive |-> "TRUE"] >>

\* the header rows of the sheets as the bot expects them
FullHeaders ==
    [t \in Tables |->
        CASE t = DRIVERS_SHEET -> {"name", "telegramid", "shift", "isactive"}
          [] t = EMPLOYEES_SHEET -> {"employee", "phone", "shift", "rides with", "telegramid"}
          [] OTHER -> {"name", "telegramid", "shift", "passenger1", "passenger2",
                       "passenger3", "passenger4"}]

InitSheets(drivers, employees, hdr) ==
    /\ headers = hdr
    /\ tab = [t \in Tables |->
                 CASE t = DRIVERS_SHEET -> drivers
                   [] t = EMPLOYEES_SHEET -> employees
                   [] OTHER -> <<>>]
    /\ cache = [t \in Tables |-> NoCache]
    /\ now = 0
    /\ pending = [tg \in TgIds |-> NoPending]
    /\ timers = EmptyBag
    /\ del_data = [tg \in TgIds |-> NoData]
    /\ shown = [tg \in TgIds |-> <<>>]
    /\ last_weekly_check = [k \in ShiftKinds |-> NoStamp]
    /\ state_file = NoFile
    /\ procs = [tg \in TgIds |-> Idle]
    /\ last = [op |-> "init", tg |-> 0, out |-> "", sent |-> <<>>]

InitWith(drivers, employees) == InitSheets(drivers, employees, FullHeaders)

Init == InitWith(InitDrivers, InitEmployees)

----------------------------------------------------------------------------
(* Actions *)

\* the user is a row of the drivers sheet (passengers_start / delete_start
\* found the driver; driver rows are never deleted)
IsDriver(tg) == \E i \in 1..Len(tab[DRIVERS_SHEET]) : tab[DRIVERS_SHEET][i].telegramID = Str(tg)

\* add_driver_name let the conversation go on: the typed name is an employee
\* with a phone (names and phones are never rewritten)
NameAccepted(name) ==
    LET rows == tab[EMPLOYEES_SHEET]
        i == MinOf({idx \in 1..Len(rows) :
                      normalize_text(rows[idx].Employee) = normalize_text(name)})
    IN  i # 0 /\ tab[EMPLOYEES_SHEET][i].Phone # ""

AddDriverPlates(tg, name, shift_text, f) ==
    /\ NameAccepted(name)
    /\ \E h \in {add_driver_plates(Store, tg, name, shift_text, Env(f))} :
           /\ tab' = h.S.tab
           /\ cache' = h.S.cache
           /\ last' = [op |-> "add_driver_plates", tg |-> tg, out |-> h.out, sent |-> h.sent]
    /\ UNCHANGED <<now, pending, timers, del_data, shown, last_weekly_check, state_file, procs, headers>>

PassengersInput(tg, names, f) ==
    /\ IsDriver(tg)
    /\ \E h \in {passengers_input(Store, tg, names, Env(f))} :
           /\ tab' = h.S.tab
           /\ cache' = h.S.cache
           /\ last' = [op |-> "passengers_input", tg |-> tg, out |-> h.out, sent |-> h.sent,
                       held_back |-> h.held_back]
    /\ UNCHANGED <<now, pending, timers, del_data, shown, last_weekly_check, state_file, procs, headers>>

DeleteStart(tg, f) ==
    /\ Cardinality({u \in TgIds \ {tg} : del_data[u] # NoData}) < MaxOpenDialogs
    /\ \E h \in {delete_start(Store, tg, Env(f))} :
           /\ tab' = h.S.tab
           /\ cache' = h.S.cache
           /\ del_data' = [del_data EXCEPT ![tg] = h.data]
           /\ last' = [op |-> "delete_start", tg |-> tg, out |-> h.out, sent |-> h.sent]
    /\ UNCHANGED <<now, pending, timers, shown, last_weekly_check, state_file, procs, headers>>

DeleteInput(tg, name, f) ==
    /\ del_data[tg] # NoData
    /\ \E h \in {delete_input(Store, tg, name, del_data[tg], Env(f))} :
           /\ tab' = h.S.tab
           /\ cache' = h.S.cache
           /\ del_data' = [del_data EXCEPT ![tg] = h.data]
           /\ last' = [op |-> "delete_input", tg |-> tg, out |-> h.out, sent |-> h.sent]
    /\ UNCHANGED <<now, pending, timers, shown, last_weekly_check, state_file, procs, headers>>

\* BotHandlers.cancel_cmd, the fallback of every conversation
CancelCmd(tg) ==
    /\ del_data[tg] # NoData
    /\ del_data' = [del_data EXCEPT ![tg] = NoData]
    /\ last' = [op |-> "cancel_cmd", tg |-> tg, out |-> "cancelled", sent |-> <<"cancelled">>]
    /\ UNCHANGED <<tab, cache, now, pending, timers, shown, last_weekly_check, state_file, procs, headers>>

WeeklyCheck(shift_kind_str, is_manual, weekday, send_fails, f) ==
    /\ BagCardinality(timers) < MaxTimers
    /\ \E h \in {weekly_check(Store, pending, timers, last_weekly_check, shift_kind_str,
                             is_manual, weekday, send_fails, Env(f))} :
           /\ tab' = h.S.tab
           /\ cache' = h.S.cache
           /\ pending' = h.pending
           /\ timers' = h.timers
           /\ last_weekly_check' = h.last_weekly_check
           /\ state_file' = IF h.saves = 0 THEN state_file
                            ELSE save_state(state_file, h.pending, h.last_weekly_check, "ok")
           /\ shown' = [tg \in TgIds |->
                           LET k == MaxOf({idx \in 1..Len(h.prompted) : h.prompted[idx].to = tg})
                           IN  IF k = 0 THEN shown[tg] ELSE h.prompted[k].passengers]
           /\ last' = [op |-> "weekly_check", tg |-> 0, out |-> h.out,
                       sent |-> [i \in 1..Len(h.prompted) |-> Str(h.prompted[i].to)],
                       kind |-> shift_kind_str, manual |-> is_manual, weekday |-> weekday,
                       failed |-> send_fails]
    /\ UNCHANGED <<now, del_data, procs, headers>>

ForceWeeklyCheck(tg, weekday, send_fails, f) ==
    /\ BagCardinality(timers) < MaxTimers
    /\ \E h \in {force_weekly_check(Store, pending, timers, last_weekly_check, tg, weekday,
                                   send_fails, Env(f))} :
           /\ tab' = h.S.tab
           /\ cache' = h.S.cache
           /\ pending' = h.pending
           /\ timers' = h.timers
           /\ last_weekly_check' = h.last_weekly_check
           /\ state_file' = IF h.saves = 0 THEN state_file
                            ELSE save_state(state_file, h.pending, h.last_weekly_check, "ok")
           /\ shown' = [u \in TgIds |->
                           LET k == MaxOf({idx \in 1..Len(h.prompted) : h.prompted[idx].to = u})
                           IN  IF k = 0 THEN shown[u] ELSE h.prompted[k].passengers]
           /\ last' = [op |-> "force_weekly_check", tg |-> tg, out |-> h.out, sent |-> h.sent,
                       prompted |-> [i \in 1..Len(h.prompted) |-> Str(h.prompted[i].to)],
                       failed |-> send_fails]
    /\ UNCHANGED <<now, del_data, procs, headers>>

\* the job queue runs a due weekly_timeout job and drops it
TimerFire(j, f) ==
    /\ j \in BagToSet(timers)
    /\ now >= j.due
    /\ \E h \in {weekly_timeout(Store, pending, j.tg, Env(f))} :
           /\ tab' = h.S.tab
           /\ cache' = h.S.cache
           /\ pending' = h.pending
           /\ state_file' = IF h.out = "noop" THEN state_file
                            ELSE save_state(state_file, h.pending, last_weekly_check, "ok")
           /\ last' = [op |-> "weekly_timeout", tg |-> j.tg, out |-> h.out, sent |-> h.sent]
    /\ timers' = timers (-) SetToBag({j})
    /\ UNCHANGED <<now, del_data, shown, last_weekly_check, procs, headers>>

WeeklyAnswer(tg, raw_text, f) ==
    /\ \E h \in {weekly_answer_handler(Store, pending, timers, tg, raw_text, Env(f))} :
           /\ tab' = h.S.tab
           /\ cache' = h.S.cache
           /\ pending' = h.pending
           /\ timers' = h.timers
           /\ state_file' = IF h.out = "noop" THEN state_file
                            ELSE save_state(state_file, h.pending, last_weekly_check, "ok")
           /\ last' = [op |-> "weekly_answer_handler", tg |-> tg, out |-> h.out, sent |-> h.sent]
    /\ UNCHANGED <<now, del_data, shown, last_weekly_check, procs, headers>>

\* one read of a sheet through the cache, the backend answering the attempts
\* of the fetch as the plan says
GetSheetData(t, plan) ==
    /\ \E r \in {get_sheet_data(Store, t, [now |-> now, r |-> plan, rk |-> 0, w |-> 0])} :
           /\ cache' = r.S.cache
           /\ last' = [op |-> "get_sheet_data", tg |-> 0,
                       out |-> IF r.ok THEN "rows" ELSE "sheet_error", sent |-> <<>>,
                       table |-> t, attempts |-> r.attempts, waits |-> r.waits,
                       age |-> IF cache[t] = NoCache THEN -1 ELSE now - cache[t].ts,
                       next |-> plan[MAX_RETRIES + 1]]
    /\ UNCHANGED <<tab, now, pending, timers, del_data, shown, last_weekly_check, state_file, procs, headers>>

\* passengers_input run as a task that is suspended between its validation
\* and its writes: the first part
PassengersValidate(tg, names) ==
    /\ procs[tg] = Idle
    /\ IsDriver(tg)
    /\ \E h \in {passengers_checked(Store, tg, names, Env(NoFault))} :
           /\ cache' = h.S.cache
           /\ procs' = IF h.out = "validated"
                       THEN [procs EXCEPT ![tg] = [pc |-> "commit", driver |-> h.driver,
                                                   names |-> h.names]]
                       ELSE procs
           /\ last' = [op |-> "passengers_validate", tg |-> tg, out |-> h.out,
                       sent |-> h.sent]
    /\ UNCHANGED <<tab, now, pending, timers, del_data, shown, last_weekly_check, state_file, headers>>

\* the second part: the task resumes and saves
PassengersCommit(tg) ==
    /\ procs[tg].pc = "commit"
    /\ \E h \in {passengers_commit(Store, procs[tg].driver, procs[tg].names, Env(NoFault))} :
           /\ tab' = h.S.tab
           /\ cache' = h.S.cache
           /\ last' = [op |-> "passengers_commit", tg |-> tg, out |-> h.out,
                       sent |-> h.sent, names |-> procs[tg].names]
    /\ procs' = [procs EXCEPT ![tg] = Idle]
    /\ UNCHANGED <<now, pending, timers, del_data, shown, last_weekly_check, state_file, headers>>

\* the handler tasks of driver tg that have removed the pending entry and
\* have their clear-and-cascade still to run
Cascading(tg) == IF procs[tg].pc = "cascade" THEN procs[tg].by ELSE <<>>

\* weekly_timeout run as a task, up to its first backend call: the job is
\* taken off the queue, the entry is tested and removed
TimeoutStart(j) ==
    /\ j \in BagToSet(timers)
    /\ now >= j.due
    /\ procs[j.tg].pc \in {"idle", "cascade"}
    /\ Len(Cascading(j.tg)) < MaxInFlight
    /\ timers' = timers (-) SetToBag({j})
    /\ IF ~has_pending_confirmation(pending, j.tg)
       THEN /\ last' = [op |-> "weekly_timeout", tg |-> j.tg, out |-> "noop", sent |-> <<>>]
            /\ UNCHANGED <<pending, state_file, procs>>
       ELSE /\ pending' = remove_pending_confirmation(pending, j.tg)
            /\ state_file' = save_state(state_file, pending', last_weekly_check, "ok")
            /\ procs' = [procs EXCEPT ![j.tg] =
                             [pc |-> "cascade",
                              by |-> Append(Cascading(j.tg), "weekly_timeout")]]
            /\ last' = [op |-> "weekly_timeout", tg |-> j.tg, out |-> "removed",
                        sent |-> <<>>]
    /\ UNCHANGED <<tab, cache, now, del_data, shown, last_weekly_check, headers>>

\* weekly_answer_handler run as a task, up to its first backend call or
\* reply: the entry is tested and removed, the jobs are cancelled
AnswerStart(tg, raw_text) ==
    /\ procs[tg].pc \in {"idle", "cascade"}
    /\ Len(Cascading(tg)) < MaxInFlight
    /\ IF ~has_pending_confirmation(pending, tg)
       THEN /\ last' = [op |-> "weekly_answer_handler", tg |-> tg, out |-> "noop",
                        sent |-> <<>>]
            /\ UNCHANGED <<pending, timers, state_file, procs>>
       ELSE /\ pending' = remove_pending_confirmation(pending, tg)
            /\ state_file' = save_state(state_file, pending', last_weekly_check, "ok")
            /\ timers' = remove_jobs_by_name(timers, tg)
            /\ procs' = IF lower_text(raw_text) = "net"
                        THEN [procs EXCEPT ![tg] =
                                 [pc |-> "cascade",
                                  by |-> Append(Cascading(tg), "weekly_answer_handler")]]
                        ELSE procs
            /\ last' = [op |-> "weekly_answer_handler", tg |-> tg,
                        out |-> IF lower_text(raw_text) = "net" THEN "removed"
                                ELSE IF lower_text(raw_text) = "da" THEN "confirmed"
                                ELSE "other",
                        sent |-> IF lower_text(raw_text) = "da" THEN <<"nothing_changed">>
                                 ELSE <<>>]
    /\ UNCHANGED <<tab, cache, now, del_data, shown, last_weekly_check, headers>>

\* a task that has removed the entry resumes: "Clear passengers" and "Clear
\* employee assignments"
Cascade(tg) ==
    /\ procs[tg].pc = "cascade"
    /\ \E c \in {clear_and_cascade(Store, tg, Env(NoFault))} :
           /\ tab' = c.S.tab
           /\ cache' = c.S.cache
           /\ last' = [op |-> "clear_and_cascade", tg |-> tg,
                       out |-> IF c.ok THEN "cleared" ELSE "error",
                       sent |-> <<Head(procs[tg].by)>>]
    /\ procs' = [procs EXCEPT ![tg] =
                     IF Len(procs[tg].by) = 1 THEN Idle
                     ELSE [pc |-> "cascade", by |-> Tail(procs[tg].by)]]
    /\ UNCHANGED <<now, pending, timers, del_data, shown, last_weekly_check, state_file, headers>>

\* _get_sheet_data of caller c, the first section under _cache_lock: a valid
\* entry is returned, otherwise the caller leaves the lock to read the backend
CacheCheck(c, t) ==
    /\ procs[c] = Idle
    /\ procs' = IF cache_valid(cache[t], now) THEN procs
                ELSE [procs EXCEPT ![c] = [pc |-> "fetch", table |-> t]]
    /\ last' = [op |-> "get_sheet_data", tg |-> c, sent |-> <<>>, table |-> t,
                out |-> IF cache_valid(cache[t], now) THEN "hit" ELSE "miss"]
    /\ UNCHANGED <<tab, cache, now, pending, timers, del_data, shown, last_weekly_check, state_file, headers>>

\* _fetch_with_retry of caller c, outside the lock: the rows of the sheet as
\* they are now
BackendRead(c) ==
    /\ procs[c].pc = "fetch"
    /\ procs' = [procs EXCEPT ![c] = [pc |-> "fill", table |-> procs[c].table,
                                      data |-> tab[procs[c].table]]]
    /\ last' = [op |-> "fetch_with_retry", tg |-> c, sent |-> <<>>, out |-> "rows",
                table |-> procs[c].table]
    /\ UNCHANGED <<tab, cache, now, pending, timers, del_data, shown, last_weekly_check, state_file, headers>>

\* the second section under _cache_lock: the entry is set to the rows read
CacheFill(c) ==
    /\ procs[c].pc = "fill"
    /\ cache' = [cache EXCEPT ![procs[c].table] = [data |-> procs[c].data, ts |-> now]]
    /\ procs' = [procs EXCEPT ![c] = Idle]
    /\ last' = [op |-> "cache_fill", tg |-> c, sent |-> <<>>, out |-> "filled",
                table |-> procs[c].table]
    /\ UNCHANGED <<tab, now, pending, timers, del_data, shown, last_weekly_check, state_file, headers>>

\* one lookup of a driver by Telegram id
GetDriver(tg) ==
    /\ \E r \in {get_driver(Store, tg, Env(NoFault))} :
           /\ cache' = r.S.cache
           /\ last' = [op |-> "get_driver", tg |-> tg, sent |-> <<>>,
                       out |-> IF ~r.ok THEN "sheet_error"
                               ELSE IF r.v = None THEN "none" ELSE "found"]
    /\ UNCHANGED <<tab, now, pending, timers, del_data, shown, last_weekly_check, state_file, procs, headers>>

\* one lookup of a driver's assignment by Telegram id
GetDriverPassengers(tg) ==
    /\ \E r \in {get_driver_passengers(Store, tg, Env(NoFault))} :
           /\ cache' = r.S.cache
           /\ last' = [op |-> "get_driver_passengers", tg |-> tg, sent |-> <<>>,
                       out |-> IF ~r.ok THEN "sheet_error"
                               ELSE IF r.v = None THEN "none" ELSE "found"]
    /\ UNCHANGED <<tab, now, pending, timers, del_data, shown, last_weekly_check, state_file, procs, headers>>

\* StateManager.add_pending_confirmation with its _save
AddPending(tg, shift_kind, io) ==
    /\ pending' = add_pending_confirmation(pending, tg, shift_kind, now)
    /\ state_file' = save_state(state_file, pending', last_weekly_check, io)
    /\ last' = [op |-> "add_pending_confirmation", tg |-> tg, out |-> "", sent |-> <<>>,
                io |-> io]
    /\ UNCHANGED <<tab, cache, now, timers, del_data, shown, last_weekly_check, procs, headers>>

\* StateManager.remove_pending_confirmation with its _save
RemovePending(tg, io) ==
    /\ pending' = remove_pending_confirmation(pending, tg)
    /\ state_file' = save_state(state_file, pending', last_weekly_check, io)
    /\ last' = [op |-> "remove_pending_confirmation", tg |-> tg, out |-> "", sent |-> <<>>,
                io |-> io]
    /\ UNCHANGED <<tab, cache, now, timers, del_data, shown, last_weekly_check, procs, headers>>

\* StateManager.update_last_weekly_check with its _save
UpdateLastCheck(shift_kind, io) ==
    /\ last_weekly_check' = update_last_weekly_check(last_weekly_check, shift_kind, now)
    /\ state_file' = save_state(state_file, pending, last_weekly_check', io)
    /\ last' = [op |-> "update_last_weekly_check", tg |-> 0, out |-> "", sent |-> <<>>,
                io |-> io]
    /\ UNCHANGED <<tab, cache, now, pending, timers, del_data, shown, procs, headers>>

\* the process ends and starts again: init_state_manager builds a StateManager
\* from the state file; the sheet cache, the job queue and the conversations
\* start empty.  last keeps the pending entries the old process held and how
\* its latest save went, when the restart follows a save.
Restart ==
    /\ pending' = load_pending(state_file)
    /\ last_weekly_check' = load_last_weekly_check(state_file)
    /\ cache' = [t \in Tables |-> NoCache]
    /\ timers' = EmptyBag
    /\ del_data' = [tg \in TgIds |-> NoData]
    /\ last' = [op |-> "restart", tg |-> 0, out |-> "", sent |-> <<>>,
                io |-> IF "io" \in DOMAIN last THEN last.io ELSE "",
                before |-> pending]
    /\ procs' = [tg \in TgIds |-> Idle]
    /\ UNCHANGED <<tab, now, shown, state_file, headers>>

Tick(d) ==
    /\ TicksAt(now) < MaxTicks
    /\ now' = now + d
    /\ last' = [op |-> "tick", tg |-> 0, out |-> "", sent |-> <<>>]
    /\ UNCHANGED <<tab, cache, pending, timers, del_data, shown, last_weekly_check, state_file, procs, headers>>

----------------------------------------------------------------------------
(* Specifications *)


\* the name a user types when registering: user 1 is the employee Ann, user 2
\* is the hand-entered driver Bob, who is not in the employees sheet
OwnName(tg) == IF tg = 1 THEN "Ann" ELSE "Bob"

\* registration, assign and remove by the users U
NextAssign(U, Names, FS) ==
    \/ \E tg \in U, sh \in ShiftButtons, f \in FS :
           AddDriverPlates(tg, OwnName(tg), sh, f)
    \/ \E tg \in U, names \in BatchesOver(Names), f \in FS : PassengersInput(tg, names, f)
    \/ \E tg \in U, f \in FS : DeleteStart(tg, f)
    \/ \E tg \in U, name \in Names, f \in FS : DeleteInput(tg, name, f)
    \/ \E tg \in U : CancelCmd(tg)

Next == NextAssign(TgIds, TypedNames, {NoFault})

Spec == Init /\ [][Next]_vars

\* the weekly confirmation protocol for the shift kinds K and the drivers U:
\* checks, replies, the clock and the timeout jobs
NextProtocol(K, U, FS) ==
    \/ \E kind \in K, is_manual \in BOOLEAN, weekday \in Weekdays,
          send_fails \in SUBSET U, f \in FS :
           WeeklyCheck(kind, is_manual, weekday, send_fails, f)
    \/ \E j \in BagToSet(timers), f \in FS : TimerFire(j, f)
    \/ \E tg \in U, text \in AnswerTexts, f \in FS : WeeklyAnswer(tg, text, f)
    \/ Tick(TimeoutSeconds)

\* the drivers sheet with the hand-entered driver on the day shift
DayDrivers ==
    << [Name |-> "Bob", telegramID |-> "2", Shift |-> "Day", isActive |-> "TRUE"] >>

InitWeekly == InitWith(DayDrivers, InitEmployees)

\* driver 2 assigns and is asked to confirm while user 1 may register; the
\* backend may fail under the protocol's handlers
NextWeekly ==
    \/ AddDriverPlates(1, OwnName(1), "Night", NoFault)
    \/ \E name \in {"Ann", "Cy"} : PassengersInput(2, <<name>>, NoFault)
    \/ NextProtocol({"day"}, {2}, Faults)

SpecWeekly == InitWeekly /\ [][NextWeekly]_vars

\* two drivers of the day shift
TwoDayDrivers ==
    << [Name |-> "Ann", telegramID |-> "1", Shift |-> "Day", isActive |-> "TRUE"],
       [Name |-> "Bob", telegramID |-> "2", Shift |-> "Day", isActive |-> "TRUE"] >>

InitBroadcast == InitWith(TwoDayDrivers, InitEmployees)

\* the weekly check of the day shift asks both drivers, any send may fail and
\* any one fetch may fail; driver 2 may take a passenger
NextBroadcast ==
    \/ PassengersInput(2, <<"Cy">>, NoFault)
    \/ \E is_manual \in BOOLEAN, weekday \in Weekdays, send_fails \in SUBSET TgIds,
          f \in {NoFault} \cup FetchFaults :
           WeeklyCheck("day", is_manual, weekday, send_fails, f)
    \/ \E j \in BagToSet(timers) : TimerFire(j, NoFault)
    \/ \E tg \in TgIds, text \in AnswerTexts : WeeklyAnswer(tg, text, NoFault)
    \/ Tick(TimeoutSeconds)

SpecBroadcast == InitBroadcast /\ [][NextBroadcast]_vars

\* a driver of the day shift and a driver of the night shift
TwoShiftDrivers ==
    << [Name |-> "Ann", telegramID |-> "1", Shift |-> "Day", isActive |-> "TRUE"],
       [Name |-> "Bob", telegramID |-> "2", Shift |-> "Night", isActive |-> "TRUE"] >>

InitAdmin == InitWith(TwoShiftDrivers, InitEmployees)

\* either user asks for the forced weekly check; the drivers answer or let the
\* timeout pass
NextAdmin ==
    \/ PassengersInput(2, <<"Cy">>, NoFault)
    \/ \E tg \in TgIds, weekday \in Weekdays, send_fails \in SUBSET TgIds,
          f \in {NoFault} \cup FetchFaults :
           ForceWeeklyCheck(tg, weekday, send_fails, f)
    \/ \E j \in BagToSet(timers) : TimerFire(j, NoFault)
    \/ \E tg \in TgIds, text \in AnswerTexts : WeeklyAnswer(tg, text, NoFault)
    \/ Tick(TimeoutSeconds)

SpecAdmin == InitAdmin /\ [][NextAdmin]_vars

\* the state manager alone: entries come and go, saves may fail, the process
\* restarts
NextPersist ==
    \/ \E tg \in TgIds, kind \in ShiftKinds, io \in SaveOutcomes : AddPending(tg, kind, io)
    \/ \E tg \in TgIds, io \in SaveOutcomes : RemovePending(tg, io)
    \/ \E kind \in ShiftKinds, io \in SaveOutcomes : UpdateLastCheck(kind, io)
    \/ Restart
    \/ Tick(TimeoutSeconds)

SpecPersist == InitWeekly /\ [][NextPersist]_vars

\* the backend fails the first n attempts of a fetch in one way and answers
\* from then on
FailThenOk ==
    {[i \in 1..(MAX_RETRIES + 1) |-> IF i > n THEN "ok" ELSE failure] :
        failure \in AttemptOutcomes \ {"ok"}, n \in 0..MAX_RETRIES}

\* reads of the sheets while the backend fails and recovers, driver 2
\* changes the sheets and the cache ages
NextFetch ==
    \/ \E t \in Tables, plan \in FailThenOk : GetSheetData(t, plan)
    \/ PassengersInput(2, <<"Cy">>, NoFault)
    \/ \E d \in {DATA_CACHE_TTL - 1, DATA_CACHE_TTL} : Tick(d)

SpecFetch == InitWeekly /\ [][NextFetch]_vars

\* reads alone: the backend fails and recovers while the cache ages
NextBackoff ==
    \/ \E t \in Tables, plan \in FailThenOk : GetSheetData(t, plan)
    \/ Tick(DATA_CACHE_TTL)

SpecBackoff == InitWeekly /\ [][NextBackoff]_vars

\* two drivers of the day shift assign at the same time: each handler is a
\* task that may be suspended between its validation and its writes while
\* the other runs
NextRace ==
    \/ \E tg \in TgIds, names \in BatchesOver({"Ann", "Cy"}) : PassengersValidate(tg, names)
    \/ \E tg \in TgIds : PassengersCommit(tg)
    \/ Tick(DATA_CACHE_TTL)

SpecRace == InitBroadcast /\ [][NextRace]_vars

\* the confirmation protocol of the day shift with process restarts.  The
\* job queue runs every due job and the clock advances (weak fairness); a
\* driver may never reply.  A check runs only while the clock can still
\* reach the due time of the timers it arms.
NextLive ==
    \/ \E is_manual \in BOOLEAN, weekday \in Weekdays, send_fails \in SUBSET TgIds :
           /\ TicksAt(now) < MaxTicks
           /\ WeeklyCheck("day", is_manual, weekday, send_fails, NoFault)
    \/ \E j \in BagToSet(timers) : TimerFire(j, NoFault)
    \/ \E tg \in TgIds, text \in AnswerTexts : WeeklyAnswer(tg, text, NoFault)
    \/ Restart
    \/ Tick(TimeoutSeconds)

SpecLive ==
    /\ InitBroadcast /\ [][NextLive]_vars
    /\ WF_vars(\E j \in BagToSet(timers) : TimerFire(j, NoFault))
    /\ WF_vars(Tick(TimeoutSeconds))

\* the timeout handler and the reply handler of the day shift run as tasks
\* that are suspended before their backend calls, under every interleaving,
\* while checks prompt again
NextConfirm ==
    \/ PassengersInput(2, <<"Cy">>, NoFault)
    \/ WeeklyCheck("day", TRUE, 6, {}, NoFault)
    \/ \E j \in BagToSet(timers) : TimeoutStart(j)
    \/ \E tg \in TgIds, text \in {"Da", "net"} : AnswerStart(tg, text)
    \/ \E tg \in TgIds : Cascade(tg)
    \/ Tick(TimeoutSeconds)

SpecConfirm == InitBroadcast /\ [][NextConfirm]_vars

\* callers read the sheets through one SheetManager at the same time, each
\* read in its three sections, while driver 2 assigns (a writer whose
\* writes and invalidations complete) and the cache ages
NextReaders ==
    \/ \E c \in TgIds, t \in Tables : CacheCheck(c, t)
    \/ \E c \in TgIds : BackendRead(c)
    \/ \E c \in TgIds : CacheFill(c)
    \/ \E name \in {"Ann", "Cy"} : PassengersInput(2, <<name>>, NoFault)
    \/ Tick(DATA_CACHE_TTL)

SpecReaders == InitWeekly /\ [][NextReaders]_vars

\* rows a sheet may grow to when every save appends (no identity column)
MaxRows == 2

\* header rows as a hand-edited spreadsheet may have them: complete, or with
\* the telegramID column of the drivers or of the drivers_passengers sheet
\* renamed or deleted
HeaderVariants ==
    {FullHeaders} \cup
    {[FullHeaders EXCEPT ![t] = @ \ {"telegramid"}] :
        t \in {DRIVERS_SHEET, DRIVERS_PASSENGERS_SHEET}}

\* the rows of a sheet that has no telegramID column
without_ids(rows) == [i \in 1..Len(rows) |-> [rows[i] EXCEPT !.telegramID = ""]]

InitHeaders ==
    \E hdr \in HeaderVariants :
        InitSheets(IF "telegramid" \in hdr[DRIVERS_SHEET]
                   THEN DayDrivers ELSE without_ids(DayDrivers),
                   InitEmployees, hdr)

\* lookups and assignments over sheets whose header row may lack the
\* identity column
NextHeaders ==
    \/ \E tg \in TgIds : GetDriver(tg)
    \/ \E tg \in TgIds : GetDriverPassengers(tg)
    \/ \E name \in {"Ann", "Cy"} :
           /\ Len(tab[DRIVERS_PASSENGERS_SHEET]) < MaxRows
           /\ PassengersInput(2, <<name>>, NoFault)
    \/ /\ Len(tab[DRIVERS_SHEET]) < MaxRows
       /\ AddDriverPlates(1, OwnName(1), "Day", NoFault)
    \/ Tick(DATA_CACHE_TTL)

SpecHeaders == InitHeaders /\ [][NextHeaders]_vars

\* a staff of all three shifts: registration and assignment
ShiftEmployees ==
    << EmployeeRow("Ann", "555-1", "Day"), EmployeeRow("Cy", "", ""),
       EmployeeRow("Dan", "", "Night") >>

ShiftNames == {"Ann", "Cy", "Dan", "Zed"}

InitShift == InitWith(InitDrivers, ShiftEmployees)

NextShift ==
    \/ \E tg \in TgIds, sh \in ShiftButtons : AddDriverPlates(tg, OwnName(tg), sh, NoFault)
    \/ \E tg \in TgIds, names \in BatchesOver(ShiftNames) :
           PassengersInput(tg, names, NoFault)

SpecShift == InitShift /\ [][NextShift]_vars

\* a staff of five, more than a car takes
CapEmployees ==
    << EmployeeRow("Ann", "555-1", "Day"), EmployeeRow("Bob", "555-2", ""),
       EmployeeRow("Cy", "", ""), EmployeeRow("Dan", "", "Night"),
       EmployeeRow("Eve", "", "Day") >>

CapNames == {"Ann", "Bob", "Cy", "Dan", "Eve"}

InitCap == InitWith(InitDrivers, CapEmployees)

\* driver 2 assigns and removes
NextCap ==
    \/ \E names \in BatchesOver(CapNames) : PassengersInput(2, names, NoFault)
    \/ DeleteStart(2, NoFault)
    \/ \E name \in CapNames : DeleteInput(2, name, NoFault)

SpecCap == InitCap /\ [][NextCap]_vars

\* the backend refuses one write of an assign; write 1 is the
\* drivers_passengers row, writes 2 .. are the employees rows of the names,
\* then the driver's own
LinkFaults == {[r |-> AllOk, rk |-> 0, w |-> k] : k \in 2..(MaxBatch + 2)}

\* two drivers of the day shift assign while a write to the employees sheet
\* may fail; driver 2 also removes
NextPartial ==
    \/ \E tg \in TgIds, names \in BatchesOver({"Ann", "Cy"}), f \in {NoFault} \cup LinkFaults :
           PassengersInput(tg, names, f)
    \/ DeleteStart(2, NoFault)
    \/ \E name \in {"Ann", "Cy"} : DeleteInput(2, name, NoFault)

SpecPartial == InitBroadcast /\ [][NextPartial]_vars

\* names as drivers type them: Ann in two spellings
MergeNames == {"Ann", "ANN", "Cy"}

\* two drivers of the day shift assign, spelling the names as they like, and
\* remove
NextMerge ==
    \/ \E tg \in TgIds, names \in BatchesOver(MergeNames) : PassengersInput(tg, names, NoFault)
    \/ \E tg \in TgIds : DeleteStart(tg, NoFault)
    \/ \E tg \in TgIds, name \in MergeNames : DeleteInput(tg, name, NoFault)

SpecMerge == InitBroadcast /\ [][NextMerge]_vars

\* two drivers of the day shift, the first deactivated by hand (isActive
\* FALSE); registration always writes TRUE
DeactivatedDrivers ==
    << [Name |-> "Ann", telegramID |-> "1", Shift |-> "Day", isActive |-> "FALSE"],
       [Name |-> "Bob", telegramID |-> "2", Shift |-> "Day", isActive |-> "TRUE"] >>

InitActive == InitWith(DeactivatedDrivers, InitEmployees)

\* weekly checks of either shift over a drivers sheet with a deactivated
\* driver; the drivers answer or let the timeout pass
NextActive ==
    \/ PassengersInput(2, <<"Cy">>, NoFault)
    \/ \E kind \in ShiftKinds, is_manual \in BOOLEAN, weekday \in Weekdays :
           WeeklyCheck(kind, is_manual, weekday, {}, NoFault)
    \/ \E j \in BagToSet(timers) : TimerFire(j, NoFault)
    \/ \E tg \in TgIds, text \in {"Da", "net"} : WeeklyAnswer(tg, text, NoFault)
    \/ Tick(TimeoutSeconds)

SpecActive == InitActive /\ [][NextActive]_vars

\* driver 2 assigns and removes while the weekly check of the day shift
\* runs: a delete conversation may be open when a timeout or a negative
\* reply clears the list it showed
NextStale ==
    \/ \E name \in {"Ann", "Cy"} : PassengersInput(2, <<name>>, NoFault)
    \/ DeleteStart(2, NoFault)
    \/ \E name \in {"Ann", "Cy"} : DeleteInput(2, name, NoFault)
    \/ WeeklyCheck("day", TRUE, 6, {}, NoFault)
    \/ \E j \in BagToSet(timers) : TimerFire(j, NoFault)
    \/ \E text \in {"Da", "net"} : WeeklyAnswer(2, text, NoFault)
    \/ Tick(TimeoutSeconds)

SpecStale == InitWeekly /\ [][NextStale]_vars

\* the display names user 2 may register under: both are employees with a
\* phone
DisplayNames == {"Ann", "Bob"}

\* driver 2 registers again under either display name, assigns and removes
NextRename ==
    \/ \E name \in DisplayNames, sh \in ShiftButtons : AddDriverPlates(2, name, sh, NoFault)
    \/ \E names \in BatchesOver({"Cy", "Eve"}) : PassengersInput(2, names, NoFault)
    \/ DeleteStart(2, NoFault)
    \/ \E name \in {"Cy", "Eve"} : DeleteInput(2, name, NoFault)

SpecRename == InitCap /\ [][NextRename]_vars

\* an employees sheet where the staff list has Cy twice, in two spellings
\* (the sheet is kept by hand; nothing in the bot merges such rows)
DupEmployees ==
    << EmployeeRow("Ann", "555-1", "Day"), EmployeeRow("Cy", "", ""),
       EmployeeRow("CY", "", "") >>

InitDup == InitWith(TwoDayDrivers, DupEmployees)

\* two drivers of the day shift assign and remove over that sheet
NextDup ==
    \/ \E tg \in TgIds, names \in BatchesOver({"Ann", "Cy"}) : PassengersInput(tg, names, NoFault)
    \/ \E tg \in TgIds : DeleteStart(tg, NoFault)
    \/ \E tg \in TgIds, name \in {"Ann", "Cy"} : DeleteInput(tg, name, NoFault)

SpecDup == InitDup /\ [][NextDup]_vars

----------------------------------------------------------------------------
(* What the sheets say *)

\* the passenger list of driver tg's row among the drivers_passengers rows
PassengersIn(rows, tg) ==
    LET i == MinOf({idx \in 1..Len(rows) : rows[idx].telegramID = Str(tg)})
    IN  IF i = 0 THEN <<>> ELSE DriverPassengers_from_dict(rows[i], i + 1).passengers

PassengersOf(tg) == PassengersIn(tab[DRIVERS_PASSENGERS_SHEET], tg)

NormalNames(list) == {normalize_text(p) : p \in Range(list)}

\* the drivers whose list holds the name
HoldersOf(name) == {tg \in TgIds : normalize_text(name) \in NormalNames(PassengersOf(tg))}

\* the rows of the drivers sheet with identity tg
DriverRowsOf(rows, tg) == {i \in 1..Len(rows) : rows[i].telegramID = Str(tg)}

\* the rows of the drivers_passengers sheet with identity tg
DriverPassengersRowsOf(tg) == DriverRowsOf(tab[DRIVERS_PASSENGERS_SHEET], tg)

----------------------------------------------------------------------------
(* C1 *)

\* C1: after any sequence of registrations, assigns and removes, no
\* employee's normalized name is in the passenger list of more than one
\* driver.  The code breaks it: registration overwrites the driver reference
\* of an employee another driver holds, after which the employee passes
\* validation for a second list.
C1_OneHolder ==
    \A i \in 1..Len(tab[EMPLOYEES_SHEET]) :
        Cardinality(HoldersOf(tab[EMPLOYEES_SHEET][i].Employee)) <= 1

----------------------------------------------------------------------------
(* C2 *)

\* C2: every driver's list holds at most MAX_PASSENGERS names, and an assign
\* whose merged list (existing plus new names) would hold more leaves the
\* drivers_passengers sheet and the employees sheet as they are, whatever the
\* backend does.
C2_Capacity ==
    /\ \A tg \in TgIds : Len(PassengersOf(tg)) <= MAX_PASSENGERS
    /\ \A tg \in TgIds, names \in BatchesOver(CapNames), f \in Faults :
           Len(merge_passengers(PassengersOf(tg), unique_names_of(names))) > MAX_PASSENGERS
               => passengers_input(Store, tg, names, Env(f)).S.tab = tab

\* a full car was asked to take one more
C2_Witness ==
    /\ last.op = "passengers_input" /\ last.out = "too_many"
    /\ Len(PassengersOf(last.tg)) = MAX_PASSENGERS

----------------------------------------------------------------------------
(* C3 *)

\* C3: a read of a table through the store returns the rows the backend
\* holds, the last write included, never rows cached before a write.
C3_ReadsSeeWrites ==
    \A t \in Tables :
        LET r == get_sheet_data(Store, t, Env(NoFault))
        IN  r.ok /\ r.data = tab[t]

\* a driver's list was written, cleared by clear_driver_passengers, and the
\* sheet then read into the cache again by the next weekly check
C3_Witness ==
    /\ last.op = "weekly_check"
    /\ cache[DRIVERS_PASSENGERS_SHEET] # NoCache
    /\ cache[DRIVERS_PASSENGERS_SHEET].data = tab[DRIVERS_PASSENGERS_SHEET]
    /\ \E tg \in TgIds :
           DriverPassengersRowsOf(tg) # {} /\ PassengersOf(tg) = <<>>

----------------------------------------------------------------------------
(* C4 *)

\* C4: the drivers sheet holds at most one row per identity; upsert_driver
\* called twice with the same data leaves exactly one row of that identity:
\* for an identity not in the sheet the first call appends and reports is_new,
\* and the second call overwrites that row and reports not is_new.
C4_IdempotentUpsert ==
    /\ \A tg \in TgIds : Cardinality(DriverRowsOf(tab[DRIVERS_SHEET], tg)) <= 1
    /\ \A tg \in TgIds, name \in {"Ann", "Bob"}, shift \in ShiftTypes :
           LET driver == [name |-> name, tg_id |-> tg, shift |-> shift, is_active |-> TRUE]
               known == DriverRowsOf(tab[DRIVERS_SHEET], tg) # {}
               u1 == upsert_driver(Store, driver, Env(NoFault))
               u2 == upsert_driver(u1.S, driver, Env(NoFault))
           IN  /\ u1.ok /\ u2.ok
               /\ u1.is_new = ~known
               /\ Len(u1.S.tab[DRIVERS_SHEET])
                      = Len(tab[DRIVERS_SHEET]) + (IF known THEN 0 ELSE 1)
               /\ ~u2.is_new
               /\ u2.row = u1.row
               /\ u2.S.tab = u1.S.tab
               /\ Cardinality(DriverRowsOf(u2.S.tab[DRIVERS_SHEET], tg)) = 1
               /\ u2.S.tab[DRIVERS_SHEET][u2.row - 1] = prepare_driver_row(driver)

\* user 1 registered and then registered again
C4_Witness ==
    /\ last.op = "add_driver_plates" /\ last.out = "updated" /\ last.tg = 1
    /\ Cardinality(DriverRowsOf(tab[DRIVERS_SHEET], 1)) = 1

----------------------------------------------------------------------------
(* C8 *)

KnownShifts == {"DAY", "NIGHT"}

\* the shift of driver tg's row of the drivers sheet
DriverShiftOf(tg) ==
    LET rows == tab[DRIVERS_SHEET]
    IN  from_string(rows[MinOf(DriverRowsOf(rows, tg))].Shift)

\* the employees row a typed name resolves to, 0 when there is none
ResolvedRow(name) ==
    MaxOf({i \in 1..Len(tab[EMPLOYEES_SHEET]) :
              normalize_text(tab[EMPLOYEES_SHEET][i].Employee) = normalize_text(name)})

\* C8: validate_passengers gives a resolved candidate the shift-mismatch
\* reason exactly when the driver's shift and the employee's shift are both
\* Day or Night and differ; the candidate is then not among the accepted, and
\* passengers_input writes nothing; with either shift Unknown the candidate
\* is never rejected for its shift.
C8_ShiftRejection ==
    \A tg \in TgIds, driver_shift \in ShiftTypes, names \in BatchesOver(ShiftNames) :
        LET v == validate_passengers(Store, tg, driver_shift, names, Env(NoFault))
        IN  \A i \in 1..Len(names) :
                LET k == ResolvedRow(names[i])
                    differ == /\ driver_shift \in KnownShifts
                              /\ from_string(tab[EMPLOYEES_SHEET][k].Shift) \in KnownShifts
                              /\ driver_shift # from_string(tab[EMPLOYEES_SHEET][k].Shift)
                IN  k # 0 =>
                      /\ ([name |-> names[i], reason |-> "shift_mismatch"] \in Range(v.errors))
                             <=> differ
                      /\ differ =>
                            /\ \A j \in 1..Len(v.valid) :
                                   normalize_text(v.valid[j].name) # normalize_text(names[i])
                            /\ (IsDriver(tg) /\ DriverShiftOf(tg) = driver_shift) =>
                                   LET h == passengers_input(Store, tg, names, Env(NoFault))
                                   IN  h.out = "rejected" /\ h.S.tab = tab

\* a driver with a known shift typed a name of the other shift
C8_Witness ==
    /\ last.op = "passengers_input" /\ last.out = "rejected"
    /\ "shift_mismatch" \in Range(last.sent)
    /\ DriverShiftOf(last.tg) \in KnownShifts

----------------------------------------------------------------------------
(* C9 *)

\* employee row i is in the list of driver D and refers to D, another
\* driver E exists, and the names hold the employee
ClaimedCase(D, E, i, names) ==
    /\ E # D /\ IsDriver(E)
    /\ tab[EMPLOYEES_SHEET][i].telegramID = Str(D)
    /\ normalize_text(tab[EMPLOYEES_SHEET][i].Employee) \in NormalNames(PassengersOf(D))
    /\ normalize_text(tab[EMPLOYEES_SHEET][i].Employee) \in NormalNames(names)

\* the reasons validate_passengers gives driver E for the employee of row i
ReasonsFor(E, i, names) ==
    LET v == validate_passengers(Store, E, DriverShiftOf(E), unique_names_of(names),
                                 Env(NoFault))
    IN  {v.errors[j].reason : j \in {x \in 1..Len(v.errors) :
             normalize_text(v.errors[x].name)
                 = normalize_text(tab[EMPLOYEES_SHEET][i].Employee)}}

\* C9 as claimed: an assign by another driver E of an employee D holds is
\* rejected with the already-claimed reason and changes no sheet.
C9_AlreadyClaimedReason ==
    \A D \in TgIds, E \in TgIds, names \in BatchesOver(ShiftNames) :
        \A i \in 1..Len(tab[EMPLOYEES_SHEET]) :
            ClaimedCase(D, E, i, names) =>
                LET h == passengers_input(Store, E, names, Env(NoFault))
                IN  /\ h.out = "rejected" /\ h.S.tab = tab
                    /\ ReasonsFor(E, i, names) = {"already_claimed"}

\* C9, amended: the assign is rejected and changes no sheet; the reason given
\* for the employee is already-claimed, unless E's shift and the employee's
\* shift are both known and differ, and then it is the shift-mismatch reason.
C9_Rejected ==
    \A D \in TgIds, E \in TgIds, names \in BatchesOver(ShiftNames) :
        \A i \in 1..Len(tab[EMPLOYEES_SHEET]) :
            ClaimedCase(D, E, i, names) =>
                LET h == passengers_input(Store, E, names, Env(NoFault))
                    differ == /\ DriverShiftOf(E) \in KnownShifts
                              /\ from_string(tab[EMPLOYEES_SHEET][i].Shift) \in KnownShifts
                              /\ DriverShiftOf(E) # from_string(tab[EMPLOYEES_SHEET][i].Shift)
                IN  /\ h.out = "rejected" /\ h.S.tab = tab
                    /\ ReasonsFor(E, i, names)
                           = IF differ THEN {"shift_mismatch"} ELSE {"already_claimed"}

\* a driver was refused an employee that another driver holds
C9_Witness ==
    /\ last.op = "passengers_input" /\ last.out = "rejected"
    /\ "already_claimed" \in Range(last.sent)
    /\ \E i \in 1..Len(tab[EMPLOYEES_SHEET]) :
           \E D \in TgIds \ {last.tg} :
               /\ tab[EMPLOYEES_SHEET][i].telegramID = Str(D)
               /\ normalize_text(tab[EMPLOYEES_SHEET][i].Employee)
                      \in NormalNames(PassengersOf(D))

----------------------------------------------------------------------------
(* C5 *)

\* the step is a weekly_timeout of a driver with a pending confirmation that
\* met no store failure
TimeoutCleared == last'.op = "weekly_timeout" /\ last'.out = "cleared"

\* the back-reference cells of an employees row, blanked
Unlinked(row) == [row EXCEPT !.RidesWith = "", !.telegramID = ""]

----------------------------------------------------------------------------
(* C6 *)

\* C6: a yes/no reply of a user with no pending confirmation changes nothing:
\* no sheet, not the cache, not the pending map, no job, and no message.
C6_ReplyIgnored ==
    \A tg \in TgIds, text \in AnswerTexts, f \in Faults :
        pending[tg] = NoPending =>
            weekly_answer_handler(Store, pending, timers, tg, text, Env(f))
                = [S |-> Store, pending |-> pending, timers |-> timers,
                   out |-> "noop", sent |-> <<>>]

\* a reply arrived after the timeout had emptied the driver's list
C6_Witness ==
    /\ last.op = "weekly_answer_handler" /\ last.out = "noop"
    /\ now >= TimeoutSeconds
    /\ DriverPassengersRowsOf(last.tg) # {}
    /\ PassengersOf(last.tg) = <<>>
    /\ pending[last.tg] = NoPending

----------------------------------------------------------------------------
(* C7 *)

\* C7: weekly_timeout for a driver with no pending confirmation changes
\* nothing and sends nothing; and a reply of a driver with a pending
\* confirmation leaves no timeout job of that driver armed, so none armed
\* before the reply can clear the list.
C7_StaleTimeout ==
    /\ \A tg \in TgIds, f \in Faults :
           pending[tg] = NoPending =>
               weekly_timeout(Store, pending, tg, Env(f))
                   = [S |-> Store, pending |-> pending, out |-> "noop", sent |-> <<>>]
    /\ (last.op = "weekly_answer_handler" /\ last.out # "noop") =>
           \A j \in BagToSet(timers) : j.tg # last.tg

\* a timeout job ran for a driver with no pending confirmation
C7_Witness ==
    /\ last.op = "weekly_timeout" /\ last.out = "noop"
    /\ pending[last.tg] = NoPending

----------------------------------------------------------------------------
(* C10 *)

\* C10: an affirmative reply of a driver with a pending confirmation removes
\* that entry and the driver's timeout jobs and changes no sheet.
C10_Confirmed ==
    \A tg \in TgIds, text \in {"Da", "da"}, f \in Faults :
        pending[tg] # NoPending =>
            LET h == weekly_answer_handler(Store, pending, timers, tg, text, Env(f))
            IN  /\ h.out = "confirmed"
                /\ h.pending = [pending EXCEPT ![tg] = NoPending]
                /\ \A j \in BagToSet(h.timers) : j.tg # tg
                /\ \A j \in BagToSet(timers) :
                       j.tg # tg => CopiesIn(j, h.timers) = CopiesIn(j, timers)
                /\ h.S.tab = tab

\* a driver with passengers said yes
C10_Witness ==
    /\ last.op = "weekly_answer_handler" /\ last.out = "confirmed"
    /\ PassengersOf(last.tg) # <<>>
    /\ pending[last.tg] = NoPending
    /\ \A j \in BagToSet(timers) : j.tg # last.tg

----------------------------------------------------------------------------
(* C11 *)

\* the employees rows after a clear of driver tg: the rows of the passengers
\* the driver's list held whose driver reference is tg are blanked
ClearedFor(tg) ==
    [i \in 1..Len(tab[EMPLOYEES_SHEET]) |->
        IF /\ normalize_text(tab[EMPLOYEES_SHEET][i].Employee)
                   \in NormalNames(PassengersOf(tg))
           /\ tab[EMPLOYEES_SHEET][i].telegramID = Str(tg)
        THEN Unlinked(tab[EMPLOYEES_SHEET][i])
        ELSE tab[EMPLOYEES_SHEET][i]]

----------------------------------------------------------------------------
(* C12 *)

\* employees rows `after` differ from the current rows only in rows whose
\* driver reference is tg, and those are blanked
OnlyOwnUnlinked(after, tg) ==
    /\ Len(after) = Len(tab[EMPLOYEES_SHEET])
    /\ \A i \in 1..Len(tab[EMPLOYEES_SHEET]) :
           \/ after[i] = tab[EMPLOYEES_SHEET][i]
           \/ /\ tab[EMPLOYEES_SHEET][i].telegramID = Str(tg)
              /\ after[i] = Unlinked(tab[EMPLOYEES_SHEET][i])

\* C12: delete_input, weekly_timeout and a negative reply blank the rides-with
\* and driver reference of an employee only when the driver reference is the
\* acting driver; every other employees row is left as it is, whatever the
\* backend does.
C12_OnlyOwnReferences ==
    \A tg \in TgIds, f \in Faults :
        LET asked == add_pending_confirmation(pending, tg, "day", now)
        IN  /\ \A name \in TypedNames :
                   OnlyOwnUnlinked(
                       delete_input(Store, tg, name, [passengers |-> PassengersOf(tg)],
                                    Env(f)).S.tab[EMPLOYEES_SHEET], tg)
            /\ OnlyOwnUnlinked(
                   weekly_timeout(Store, asked, tg, Env(f)).S.tab[EMPLOYEES_SHEET], tg)
            /\ OnlyOwnUnlinked(
                   weekly_answer_handler(Store, asked, timers, tg, "Net",
                                         Env(f)).S.tab[EMPLOYEES_SHEET], tg)

\* driver 2 removed Ann from a list that keeps Cy, and Ann's row still names
\* driver 1
C12_Witness ==
    /\ last.op = "delete_input" /\ last.out = "removed" /\ last.tg = 2
    /\ PassengersOf(2) = <<"Cy">>
    /\ \E i \in 1..Len(tab[EMPLOYEES_SHEET]) :
           /\ tab[EMPLOYEES_SHEET][i].Employee = "Ann"
           /\ tab[EMPLOYEES_SHEET][i].telegramID = Str(1)
           /\ tab[EMPLOYEES_SHEET][i].RidesWith # ""

----------------------------------------------------------------------------
(* C13 *)

\* C13: validate_passengers, when it returns, has put every name of a batch
\* of distinct names in exactly one of its two outputs: one accepted employee
\* or one reason per name, in the order of the batch, so that the two outputs
\* together are as long as the batch.
C13_FullPartition ==
    \A tg \in TgIds, driver_shift \in ShiftTypes, typed \in BatchesOver(ShiftNames),
       f \in Faults :
        LET names == unique_names_of(typed)
            v == validate_passengers(Store, tg, driver_shift, names, Env(f))
            accepted == {j \in 1..Len(names) :
                            \E x \in 1..Len(v.valid) :
                                normalize_text(v.valid[x].name) = normalize_text(names[j])}
            refused == {j \in 1..Len(names) :
                           \E x \in 1..Len(v.errors) : v.errors[x].name = names[j]}
        IN  v.ok =>
                /\ Len(v.valid) + Len(v.errors) = Len(names)
                /\ accepted \cup refused = 1..Len(names)
                /\ accepted \cap refused = {}
                /\ Cardinality(accepted) = Len(v.valid)
                /\ Cardinality(refused) = Len(v.errors)

\* a message of two names drew two reasons: the second name was looked at
\* after the first was refused
C13_Witness ==
    /\ last.op = "passengers_input" /\ last.out = "rejected"
    /\ Len(last.sent) >= 3
    /\ last.sent[1] # last.sent[2]

----------------------------------------------------------------------------
(* C14 *)

\* C14: when validate_passengers returns a rejection for a batch, the handler
\* leaves all three sheets as they are, whatever it accepted, and answers
\* with the reasons.
C14_AllOrNothing ==
    \A tg \in TgIds, typed \in BatchesOver(ShiftNames), f \in Faults :
        IsDriver(tg) =>
            LET names == unique_names_of(typed)
                v == validate_passengers(Store, tg, DriverShiftOf(tg), names, Env(f))
                h == passengers_input(Store, tg, typed, Env(f))
            IN  (v.ok /\ v.errors # <<>>) =>
                    /\ h.out = "rejected"
                    /\ h.S.tab = tab
                    /\ h.held_back = Len(v.valid)
                    /\ Len(h.sent) = Len(v.errors) + 1

\* a batch with an accepted and a refused candidate was turned down
C14_Witness ==
    /\ last.op = "passengers_input" /\ last.out = "rejected"
    /\ last.held_back > 0

----------------------------------------------------------------------------
(* C15 *)

\* the drivers of the drivers sheet a weekly check of the shift kind asks
MatchingDrivers(kind) ==
    {tg \in TgIds :
        \E i \in 1..Len(tab[DRIVERS_SHEET]) :
            /\ tab[DRIVERS_SHEET][i].telegramID = Str(tg)
            /\ from_string(tab[DRIVERS_SHEET][i].Shift) = from_string(kind)}

\* the timeout jobs of driver tg in the job queue
JobsOf(tms, tg) == {j \in BagToSet(tms) : j.tg = tg}

\* the weekly check added one pending entry and one timeout job for driver tg
ArmedFor(h, tg, kind) ==
    /\ h.pending[tg] = [shift_kind |-> kind, timestamp |-> now]
    /\ \A j \in JobsOf(h.timers, tg) \cup JobsOf(timers, tg) :
           CopiesIn(j, h.timers) =
               CopiesIn(j, timers) + (IF j.due = now + TimeoutSeconds THEN 1 ELSE 0)
    /\ [tg |-> tg, due |-> now + TimeoutSeconds] \in BagToSet(h.timers)

\* the weekly check left the pending entry and the timeout jobs of driver tg
NotArmedFor(h, tg) ==
    /\ h.pending[tg] = pending[tg]
    /\ \A j \in JobsOf(h.timers, tg) \cup JobsOf(timers, tg) :
           CopiesIn(j, h.timers) = CopiesIn(j, timers)

\* C15: in a weekly check that passes the gate and reads the store, the
\* drivers of the shift whose send succeeded are prompted and get a pending
\* entry and a timeout job each; a driver whose send failed gets neither,
\* and nobody else does.
C15_SendFailure ==
    \A kind \in ShiftKinds, is_manual \in BOOLEAN, weekday \in Weekdays,
       send_fails \in SUBSET TgIds :
        LET h == weekly_check(Store, pending, timers, last_weekly_check, kind, is_manual,
                              weekday, send_fails, Env(NoFault))
            asked == MatchingDrivers(kind) \ send_fails
        IN  ~weekday_gate_closed(weekday, is_manual) =>
                /\ h.out = "done"
                /\ {h.prompted[i].to : i \in 1..Len(h.prompted)} = asked
                /\ Len(h.prompted) = Cardinality(asked)
                /\ \A tg \in TgIds :
                       IF tg \in asked THEN ArmedFor(h, tg, kind) ELSE NotArmedFor(h, tg)

\* a check of two drivers in which the send to the first failed: only the
\* second has a pending entry and a timeout job
C15_Witness ==
    /\ last.op = "weekly_check" /\ last.out = "done"
    /\ last.failed = {1}
    /\ last.sent = <<"2">>
    /\ MatchingDrivers("day") = {1, 2}
    /\ pending[1] = NoPending /\ pending[2] # NoPending
    /\ JobsOf(timers, 1) = {} /\ JobsOf(timers, 2) # {}

----------------------------------------------------------------------------
(* C16 *)

\* C16: in a forced weekly check all of whose sends succeed and in which one
\* fetch of the store fails after the drivers were listed, at most the one
\* driver whose passengers could not be read goes without a pending entry
\* and a timeout job.
C16_OnlyThatDriverSkipped ==
    \A kind \in ShiftKinds, f \in FetchFaults :
        LET h == weekly_check(Store, pending, timers, last_weekly_check, kind, TRUE, 6, {},
                              Env(f))
        IN  get_drivers_for_shift(Store, from_string(kind), Env(f)).ok =>
                Cardinality({tg \in MatchingDrivers(kind) : ~ArmedFor(h, tg, kind)}) <= 1

----------------------------------------------------------------------------
(* C17 *)

\* C17: a scheduled weekly check on a day other than Sunday returns with the
\* store, the pending entries, the job queue and the last-run timestamps as
\* they were, having prompted nobody and saved nothing; a manual check does
\* passes the gate on every weekday and does what a Sunday check does, and
\* when the store can be read it prompts the drivers of the shift and records
\* the time of the run.
C17_WeekdayGate ==
    \A kind \in ShiftKinds, send_fails \in SUBSET TgIds, f \in {NoFault} \cup FetchFaults :
        LET sunday == weekly_check(Store, pending, timers, last_weekly_check, kind, FALSE, 6,
                                   send_fails, Env(f))
            scheduled(weekday) ==
                weekly_check(Store, pending, timers, last_weekly_check, kind, FALSE, weekday,
                             send_fails, Env(f))
            manual(weekday) ==
                weekly_check(Store, pending, timers, last_weekly_check, kind, TRUE, weekday,
                             send_fails, Env(f))
        IN  /\ \A weekday \in DaysOfWeek \ {6} :
                   scheduled(weekday) =
                       [S |-> Store, pending |-> pending, timers |-> timers,
                        last_weekly_check |-> last_weekly_check, out |-> "skipped",
                        prompted |-> <<>>, saves |-> 0]
            /\ \A weekday \in DaysOfWeek : ~weekday_gate_closed(weekday, TRUE)
            /\ \A weekday \in Weekdays : manual(weekday) = sunday
            /\ sunday.out # "skipped"
            /\ f = NoFault =>
                   /\ {sunday.prompted[i].to : i \in 1..Len(sunday.prompted)}
                          = MatchingDrivers(kind) \ send_fails
                   /\ sunday.last_weekly_check[kind] = [isoformat |-> now]

\* a scheduled check was skipped on a Saturday although a driver of the shift
\* had passengers and every send would have succeeded
C17_Witness ==
    /\ last.op = "weekly_check" /\ last.out = "skipped"
    /\ ~last.manual /\ last.weekday = 5 /\ last.failed = {}
    /\ \E tg \in MatchingDrivers(last.kind) : PassengersOf(tg) # <<>>
    /\ \A tg \in TgIds : pending[tg] = NoPending
    /\ timers = EmptyBag
    /\ last_weekly_check[last.kind] = NoStamp

----------------------------------------------------------------------------
(* C18 *)

\* the shift kind under which a forced check asks driver tg
KindOf(tg) == IF tg \in MatchingDrivers("day") THEN "day" ELSE "night"

\* C18: force_weekly_check called by a user outside ADMIN_USERS answers with
\* the denial and returns with the store, the pending entries, the job queue
\* and the timestamps as they were, nobody prompted; called by an
\* administrator it runs the check of both shifts, and when the store can be
\* read every driver of either shift whose send succeeds is prompted and gets
\* a pending entry and a timeout job.
C18_AdminOnly ==
    \A tg \in TgIds, weekday \in Weekdays, send_fails \in SUBSET TgIds,
       f \in {NoFault} \cup FetchFaults :
        LET h == force_weekly_check(Store, pending, timers, last_weekly_check, tg, weekday,
                                    send_fails, Env(f))
            asked == (MatchingDrivers("day") \cup MatchingDrivers("night")) \ send_fails
        IN  IF tg \notin ADMIN_USERS
            THEN h = [S |-> Store, pending |-> pending, timers |-> timers,
                      last_weekly_check |-> last_weekly_check, out |-> "denied",
                      sent |-> <<"no_access">>, prompted |-> <<>>, saves |-> 0]
            ELSE /\ h.out = "forced"
                 /\ f = NoFault =>
                        /\ {h.prompted[i].to : i \in 1..Len(h.prompted)} = asked
                        /\ \A u \in TgIds :
                               IF u \in asked THEN ArmedFor(h, u, KindOf(u))
                               ELSE NotArmedFor(h, u)

\* a user who is not an administrator asked for the forced check while two
\* drivers could have been prompted: the denial was sent, nothing is pending
\* and no timeout job is armed
C18_Witness ==
    /\ last.op = "force_weekly_check" /\ last.out = "denied"
    /\ last.tg \notin ADMIN_USERS /\ last.failed = {}
    /\ last.sent = <<"no_access">> /\ last.prompted = <<>>
    /\ MatchingDrivers("day") \cup MatchingDrivers("night") = TgIds
    /\ \A u \in TgIds : pending[u] = NoPending
    /\ timers = EmptyBag

----------------------------------------------------------------------------
(* C19 *)

----------------------------------------------------------------------------
(* C20 *)

\* C20: whatever the backend answers, _fetch_with_retry makes at least one
\* and at most MAX_RETRIES attempts; it returns rows only from an attempt
\* that succeeded, after failed attempts only, and the rows are the sheet's;
\* otherwise it raises, after MAX_RETRIES failed attempts or at once when the
\* spreadsheet is not found, and hands out no rows.
C20_BoundedRetry ==
    \A t \in Tables, plan \in AttemptPlans :
        LET r == fetch_with_retry(tab[t], plan)
        IN  /\ r.attempts \in 1..MAX_RETRIES
            /\ \A i \in 1..(r.attempts - 1) : plan[i] \in AttemptOutcomes \ {"ok", "not_found"}
            /\ IF r.ok
               THEN plan[r.attempts] = "ok" /\ r.data = tab[t]
               ELSE /\ plan[r.attempts] # "ok"
                    /\ r.data = <<>>
                    /\ r.attempts = MAX_RETRIES \/ plan[r.attempts] = "not_found"

\* a read of a sheet with rows gave up after MAX_RETRIES failed attempts,
\* although the backend would have answered the next one: no rows were
\* returned and nothing was cached
C20_Witness ==
    /\ last.op = "get_sheet_data" /\ last.out = "sheet_error"
    /\ last.attempts = MAX_RETRIES
    /\ last.next = "ok"
    /\ tab[last.table] # <<>>
    /\ cache[last.table] = NoCache

(* C21 *)

\* C21: a backend read whose first attempt finds that the spreadsheet or the
\* worksheet does not exist fails at once with a store error: that attempt is
\* the only one made (so no back-off delay is waited) and no rows come back.
C21_MissingFailsAtOnce ==
    \A t \in Tables, plan \in AttemptPlans :
        plan[1] \in Missing =>
            LET r == fetch_with_retry(tab[t], plan)
            IN  ~r.ok /\ r.attempts = 1

(* C22 *)

\* C22: whenever a write operation of the store has attempted its backend
\* write, the cache entry of the written table is evicted when the operation
\* returns or raises, whether that write succeeded or failed; for the five
\* write operations, on the rows they find, under every behaviour of the
\* backend.
C22_WriteEvicts ==
    \A f \in Faults, tg \in TgIds :
        LET e == Env(f)
            evicted(r, t) == r.S.w > 0 => r.S.cache[t] = NoCache
            d == get_driver(Store, tg, Env(NoFault)).v
            dp == get_driver_passengers(Store, tg, Env(NoFault)).v
        IN  /\ d # None => evicted(upsert_driver(Store, d, e), DRIVERS_SHEET)
            /\ dp # None =>
                   evicted(upsert_driver_passengers(Store, dp, e), DRIVERS_PASSENGERS_SHEET)
            /\ evicted(clear_driver_passengers(Store, tg, e), DRIVERS_PASSENGERS_SHEET)
            /\ \A i \in 1..Len(tab[EMPLOYEES_SHEET]) :
                   LET name == tab[EMPLOYEES_SHEET][i].Employee
                   IN  /\ evicted(update_employee_driver(Store, name, "Bob", tg, e),
                                  EMPLOYEES_SHEET)
                       /\ evicted(clear_employee_driver(Store, name, tg, e), EMPLOYEES_SHEET)

(* C23 *)

\* C23: a read of a table whose cache entry is present and younger than
\* DATA_CACHE_TTL returns the cached rows without any backend read and
\* leaves the cache as it is; a read with no entry, or with an entry of age
\* DATA_CACHE_TTL or more, reads the backend once; when that read succeeds
\* the rows returned are the backend's and the entry is replaced by them,
\* stamped with the current time; when it fails the cache is left as it is.
C23_CacheWindow ==
    \A t \in Tables, plan \in AttemptPlans :
        LET r == get_sheet_data(Store, t, [now |-> now, r |-> plan, rk |-> 0, w |-> 0])
            young == cache[t] # NoCache /\ now - cache[t].ts < DATA_CACHE_TTL
        IN  IF young
            THEN /\ r.ok /\ r.data = cache[t].data
                 /\ r.S.n = 0 /\ r.attempts = 0
                 /\ r.S.cache = cache
            ELSE /\ r.S.n = 1 /\ r.attempts >= 1
                 /\ IF r.ok
                    THEN /\ r.data = tab[t]
                         /\ r.S.cache = [cache EXCEPT ![t] = [data |-> tab[t], ts |-> now]]
                    ELSE r.S.cache = cache

\* an entry one second short of DATA_CACHE_TTL was served from the cache:
\* no attempt was made and the entry kept its stamp
C23_Witness ==
    /\ last.op = "get_sheet_data" /\ last.out = "rows"
    /\ last.age = DATA_CACHE_TTL - 1 /\ last.attempts = 0
    /\ cache[last.table] # NoCache
    /\ now - cache[last.table].ts = DATA_CACHE_TTL - 1

(* C24 *)

\* C24: a lookup of a driver, or of a driver's assignment, in a sheet that
\* has rows but whose header row lacks the telegramID column fails with a
\* store error; it does not answer that there is no such driver or no
\* assignment.
C24_MissingColumnIsError ==
    \A tg \in TgIds :
        /\ (tab[DRIVERS_SHEET] # <<>> /\ "telegramid" \notin headers[DRIVERS_SHEET])
               => ~get_driver(Store, tg, Env(NoFault)).ok
        /\ (tab[DRIVERS_PASSENGERS_SHEET] # <<>>
                /\ "telegramid" \notin headers[DRIVERS_PASSENGERS_SHEET])
               => ~get_driver_passengers(Store, tg, Env(NoFault)).ok

(* C25 *)

C27_OneTimerPerDriver ==
    /\ [](\A tg \in TgIds :
             /\ Cardinality(JobsOf(timers, tg)) <= 1
             /\ \A j \in JobsOf(timers, tg) : CopiesIn(j, timers) = 1)
    /\ [][\A tg \in TgIds :
            (last'.op = "weekly_timeout" /\ last'.tg = tg /\ last'.out # "noop"
                /\ pending[tg] # NoPending)
                => now >= pending[tg].timestamp + TimeoutSeconds]_vars

(* C28 *)

C29_NoStaleFill ==
    \A t \in Tables : cache[t] # NoCache => cache[t].data = tab[t]

(* C30 *)

\* C30: when several callers find no valid cache entry for the same table,
\* the backend is read once: no two callers are between their cache miss and
\* their cache fill for the same table at the same time.
C30_SingleRead ==
    \A c1, c2 \in TgIds :
        (c1 # c2 /\ procs[c1].pc \in {"fetch", "fill"} /\ procs[c2].pc \in {"fetch", "fill"})
            => procs[c1].table # procs[c2].table

----------------------------------------------------------------------------
(* C31 *)

\* the employees rows of that normalized name whose driver reference is tg
LinkedRows(name, tg) ==
    {i \in 1..Len(tab[EMPLOYEES_SHEET]) :
        /\ normalize_text(tab[EMPLOYEES_SHEET][i].Employee) = normalize_text(name)
        /\ tab[EMPLOYEES_SHEET][i].telegramID = Str(tg)}

\* C31: in every state reached by registrations, assigns and removes that
\* all completed without a backend error, each name in a driver's passenger
\* list is the name of an employee whose driver reference is that driver.
\* The code breaks it: the self-assignment that ends a registration (and an
\* assign) sets the driver's own employee row to the driver, also when
\* another driver's list holds that employee.
C31_ListedMeansLinked ==
    \A tg \in TgIds : \A p \in Range(PassengersOf(tg)) : LinkedRows(p, tg) # {}


----------------------------------------------------------------------------
(* C32 *)

\* the employees row get_employee_by_name finds for the name, in rows
FirstRowOf(rows, name) ==
    MinOf({i \in 1..Len(rows) : normalize_text(rows[i].Employee) = normalize_text(name)})

\* C32: when a write to the employees sheet fails during an assign whose
\* drivers_passengers row was written, the row keeps the merged list, the
\* employees linked before the failing write stay linked to the driver, the
\* names after it are left as they were, and the driver is sent the failure
\* message and not the success message.
C32_NoRollback ==
    \A tg \in TgIds, typed \in BatchesOver({"Ann", "Cy"}), f \in LinkFaults :
        LET names == unique_names_of(typed)
            clean == passengers_input(Store, tg, typed, Env(NoFault))
            h == passengers_input(Store, tg, typed, Env(f))
            before == tab[EMPLOYEES_SHEET]
            after == h.S.tab[EMPLOYEES_SHEET]
        IN  (IsDriver(tg) /\ clean.out = "ok" /\ h.S.w >= f.w) =>
                /\ h.out = "update_failed"
                /\ h.sent = <<"update_error">>
                /\ h.S.tab[DRIVERS_PASSENGERS_SHEET] = clean.S.tab[DRIVERS_PASSENGERS_SHEET]
                /\ PassengersIn(h.S.tab[DRIVERS_PASSENGERS_SHEET], tg)
                       = merge_passengers(PassengersOf(tg), names)
                /\ \A j \in 1..Len(names) :
                       LET i == FirstRowOf(after, names[j])
                       IN  IF j + 1 < f.w
                           THEN i # 0 /\ after[i].telegramID = Str(tg)
                                      /\ after[i].RidesWith # ""
                           ELSE i = FirstRowOf(before, names[j])
                                    /\ (i # 0 => after[i] = before[i])

\* driver 2 asked for Ann and Cy, the write of Cy's row failed: the list holds
\* both, Ann is linked to driver 2, Cy is not, and the driver was told of the
\* failure
C32_Witness ==
    /\ last.op = "passengers_input" /\ last.tg = 2 /\ last.out = "update_failed"
    /\ PassengersOf(2) = <<"Ann", "Cy">>
    /\ LinkedRows("Ann", 2) # {}
    /\ LinkedRows("Cy", 2) = {}


----------------------------------------------------------------------------
(* C33 *)

\* the passenger lists an assignment row may be written with
ListsOver(N) == {<<>>} \cup BatchesOver(N)

\* C33: the drivers_passengers sheet holds at most one row per driver
\* identity; upsert_driver_passengers overwrites the driver's row in place,
\* leaving the other rows and the length of the sheet as they are, and
\* appends one row only when the sheet has no row of that identity; remove
\* and the two clears never lengthen the sheet; whatever the backend does.
C33_OneRowPerDriver ==
    LET rows == tab[DRIVERS_PASSENGERS_SHEET]
        asked(tg) == add_pending_confirmation(pending, tg, "day", now)
    IN  /\ \A tg \in TgIds : Cardinality(DriverPassengersRowsOf(tg)) <= 1
        /\ \A tg \in TgIds, list \in ListsOver(TypedNames), f \in Faults :
               LET dp == [driver_name |-> OwnName(tg), driver_tgid |-> tg,
                          shift |-> "UNKNOWN", passengers |-> list]
                   u == upsert_driver_passengers(Store, dp, Env(f))
                   after == u.S.tab[DRIVERS_PASSENGERS_SHEET]
                   own == DriverPassengersRowsOf(tg)
               IN  /\ ~u.ok => after = rows
                   /\ (u.ok /\ own # {}) =>
                          /\ Len(after) = Len(rows)
                          /\ \A i \in 1..Len(rows) :
                                 IF i \in own THEN after[i] = prepare_driver_passengers_row(dp)
                                 ELSE after[i] = rows[i]
                   /\ (u.ok /\ own = {}) =>
                          after = Append(rows, prepare_driver_passengers_row(dp))
        /\ \A tg \in TgIds, name \in TypedNames, f \in Faults :
               /\ Len(delete_input(Store, tg, name, [passengers |-> PassengersOf(tg)],
                                   Env(f)).S.tab[DRIVERS_PASSENGERS_SHEET]) = Len(rows)
               /\ Len(weekly_timeout(Store, asked(tg), tg,
                                     Env(f)).S.tab[DRIVERS_PASSENGERS_SHEET]) = Len(rows)
               /\ Len(weekly_answer_handler(Store, asked(tg), timers, tg, "Net",
                                            Env(f)).S.tab[DRIVERS_PASSENGERS_SHEET]) = Len(rows)

\* both drivers have a row, and the last assign was by the driver of the
\* first row: it overwrote a row that was there
C33_Witness ==
    /\ last.op = "passengers_input" /\ last.out = "ok"
    /\ Len(tab[DRIVERS_PASSENGERS_SHEET]) = 2
    /\ DriverPassengersRowsOf(last.tg) = {1}
    /\ DriverPassengersRowsOf(3 - last.tg) = {2}


----------------------------------------------------------------------------
(* C34 *)

\* the positions of a typed batch whose name is new: not in the list under
\* normalized comparison and not typed earlier in the batch
NewPositions(existing, typed) ==
    {i \in 1..Len(typed) :
        /\ normalize_text(typed[i]) \notin NormalNames(existing)
        /\ \A j \in 1..(i - 1) : normalize_text(typed[j]) # normalize_text(typed[i])}

\* C34: the list an assign commits is the driver's list as it was, in its
\* order, followed by the typed names that are new under normalized
\* comparison, in the order typed and as typed; no two entries of a committed
\* list are equal under normalization.
C34_MergedList ==
    /\ \A tg \in TgIds : \A a, b \in 1..Len(PassengersOf(tg)) :
           a # b => normalize_text(PassengersOf(tg)[a]) # normalize_text(PassengersOf(tg)[b])
    /\ \A tg \in TgIds, typed \in BatchesOver(MergeNames) :
           LET h == passengers_input(Store, tg, typed, Env(NoFault))
               existing == PassengersOf(tg)
               committed == PassengersIn(h.S.tab[DRIVERS_PASSENGERS_SHEET], tg)
               keep == NewPositions(existing, typed)
           IN  h.out = "ok" =>
                   /\ Len(committed) = Len(existing) + Cardinality(keep)
                   /\ \A k \in 1..Len(existing) : committed[k] = existing[k]
                   /\ \A i \in keep :
                          committed[Len(existing) + Cardinality({j \in keep : j < i}) + 1]
                              = typed[i]
                   /\ \A a, b \in 1..Len(committed) :
                          a # b => normalize_text(committed[a]) # normalize_text(committed[b])

\* driver 2 holds Cy, then Ann in the spelling typed, after an assign
C34_Witness ==
    /\ last.op = "passengers_input" /\ last.tg = 2 /\ last.out = "ok"
    /\ PassengersOf(2) = <<"Cy", "ANN">>


----------------------------------------------------------------------------
(* C35 *)

\* employees rows `after` keep every row of the employees sheet, with its
\* name, phone and shift
KeepsEmployees(after) ==
    /\ Len(after) >= Len(tab[EMPLOYEES_SHEET])
    /\ \A i \in 1..Len(tab[EMPLOYEES_SHEET]) :
           /\ after[i].Employee = tab[EMPLOYEES_SHEET][i].Employee
           /\ after[i].Phone = tab[EMPLOYEES_SHEET][i].Phone
           /\ after[i].Shift = tab[EMPLOYEES_SHEET][i].Shift

\* employees rows `after` are the employees sheet but for the rides-with and
\* driver-reference cells of the row of that name
OnlyLinkCells(after, name) ==
    /\ Len(after) = Len(tab[EMPLOYEES_SHEET])
    /\ KeepsEmployees(after)
    /\ \A i \in 1..Len(tab[EMPLOYEES_SHEET]) :
           i # FirstRowOf(tab[EMPLOYEES_SHEET], name) => after[i] = tab[EMPLOYEES_SHEET][i]

\* C35: update_employee_driver and clear_employee_driver, applied to the name
\* of an employees row, change at most the rides-with and driver-reference
\* cells of that employee's row and nothing in the other two sheets,
\* whatever the backend does; and no handler of the system (registration,
\* assign, remove, timeout, negative reply), applied to any state, removes an
\* employees row or changes a name, a phone or a shift.
C35_OnlyLinkCells ==
    \A tg \in TgIds, f \in Faults :
        LET asked == add_pending_confirmation(pending, tg, "day", now)
            kept(h) == KeepsEmployees(h.S.tab[EMPLOYEES_SHEET])
        IN  /\ \A i \in 1..Len(tab[EMPLOYEES_SHEET]) :
                   LET name == tab[EMPLOYEES_SHEET][i].Employee
                       u == update_employee_driver(Store, name, OwnName(tg), tg, Env(f))
                       c == clear_employee_driver(Store, name, tg, Env(f))
                   IN  /\ OnlyLinkCells(u.S.tab[EMPLOYEES_SHEET], name)
                       /\ OnlyLinkCells(c.S.tab[EMPLOYEES_SHEET], name)
                       /\ \A t \in Tables \ {EMPLOYEES_SHEET} :
                              u.S.tab[t] = tab[t] /\ c.S.tab[t] = tab[t]
            /\ \A sh \in ShiftButtons : kept(add_driver_plates(Store, tg, OwnName(tg), sh, Env(f)))
            /\ \A names \in BatchesOver(TypedNames) : kept(passengers_input(Store, tg, names, Env(f)))
            /\ \A name \in TypedNames :
                   kept(delete_input(Store, tg, name, [passengers |-> PassengersOf(tg)], Env(f)))
            /\ kept(weekly_timeout(Store, asked, tg, Env(f)))
            /\ kept(weekly_answer_handler(Store, asked, timers, tg, "Net", Env(f)))

\* Ann was linked to driver 2 by an assign and then unlinked by a remove: her
\* row has its phone and shift, and the cells are blank again
C35_Witness ==
    /\ last.op = "delete_input" /\ last.tg = 2 /\ last.out = "removed"
    /\ \E i \in 1..Len(tab[EMPLOYEES_SHEET]) :
           tab[EMPLOYEES_SHEET][i] = EmployeeRow("Ann", "555-1", "Day")
    /\ \E i \in 1..Len(tab[EMPLOYEES_SHEET]) :
           /\ tab[EMPLOYEES_SHEET][i].Employee = "Cy"
           /\ tab[EMPLOYEES_SHEET][i].telegramID = Str(2)


----------------------------------------------------------------------------
(* C36 *)

\* the drivers of the drivers sheet with a known identity, the shift of the
\* shift kind and isActive TRUE
ActiveOnShift(kind) ==
    {tg \in TgIds :
        \E i \in 1..Len(tab[DRIVERS_SHEET]) :
            /\ tab[DRIVERS_SHEET][i].telegramID = Str(tg)
            /\ from_string(tab[DRIVERS_SHEET][i].Shift) = from_string(kind)
            /\ tab[DRIVERS_SHEET][i].isActive = "TRUE"}

\* C36: a weekly check of a shift kind that passes the gate prompts exactly
\* the active drivers of that shift with a known identity; a deactivated
\* driver and a driver of another shift is not prompted and its pending
\* entry is left as it is.  The code breaks it: get_drivers_for_shift does
\* not look at isActive.
C36_OnlyActiveOnShift ==
    \A kind \in ShiftKinds, is_manual \in BOOLEAN, weekday \in Weekdays :
        LET h == weekly_check(Store, pending, timers, last_weekly_check, kind, is_manual,
                              weekday, {}, Env(NoFault))
        IN  ~weekday_gate_closed(weekday, is_manual) =>
                /\ {h.prompted[i].to : i \in 1..Len(h.prompted)} = ActiveOnShift(kind)
                /\ \A tg \in TgIds \ ActiveOnShift(kind) : h.pending[tg] = pending[tg]


----------------------------------------------------------------------------
(* C37 *)

\* the backend answers every attempt with APIError 429
AllRateLimited == [i \in 1..(MAX_RETRIES + 1) |-> "rate_limited"]

\* the sleep after the failure of attempt k (0-based) is the claimed delay
ClaimedWait(outcome, k, wait) ==
    IF outcome = "rate_limited"
    THEN wait = (IF 10 * (2 ^ k) < 60 THEN 10 * (2 ^ k) ELSE 60)
    ELSE wait = RETRY_DELAY_SECONDS * (2 ^ k)

----------------------------------------------------------------------------
(* C38 *)

\* C38: remove_passenger for a name that is not in the driver's list, as the
\* sheet has it now, attempts no backend write, leaves the three sheets as
\* they are and, unless the read fails, returns false; delete_input for
\* such a name that the conversation still shows leaves the sheets as they
\* are and does not report a removal; whatever the backend does.
C38_AbsentNameNoWrite ==
    \A tg \in TgIds, name \in TypedNames, f \in Faults :
        normalize_text(name) \notin NormalNames(PassengersOf(tg)) =>
            LET r == remove_passenger(Store, tg, name, Env(f))
                h == delete_input(Store, tg, name, [passengers |-> <<name>>], Env(f))
            IN  /\ r.S.w = 0
                /\ r.S.tab = tab
                /\ ~r.removed
                /\ r.ok = (f.r = AllOk \/ cache_valid(cache[DRIVERS_PASSENGERS_SHEET], now))
                /\ h.S.tab = tab
                /\ h.out = IF r.ok THEN "not_removed" ELSE "sheet_error"

\* driver 2 typed a name that the open delete conversation lists, after the
\* list was cleared: nothing was found, the row is still empty
C38_Witness ==
    /\ last.op = "delete_input" /\ last.tg = 2 /\ last.out = "not_removed"
    /\ del_data[2] # NoData
    /\ del_data[2].passengers # <<>>
    /\ DriverPassengersRowsOf(2) # {}
    /\ PassengersOf(2) = <<>>

----------------------------------------------------------------------------
(* C39 *)

\* the employee a passengers message resolves `name` to, as validation sees
\* the sheet now; None when no row has the name
ValidatedEmployee(name) ==
    LET all == get_all_employees(Store, Env(NoFault)).v
        k == employee_map_index(all, name)
    IN  IF k = 0 THEN None ELSE all[k]

\* C39: validate_passengers never gives the already-claimed reason for an
\* employee whose driver reference is the requesting driver's own identity,
\* whatever the rides-with label of that employee says
C39_OwnPassengerNotClaimed ==
    \A tg \in TgIds, name \in CapNames, driver_shift \in ShiftTypes :
        LET employee == ValidatedEmployee(name)
            v == validate_passengers(Store, tg, driver_shift, <<name>>, Env(NoFault))
        IN  (employee # None /\ employee.driver_tgid = tg) =>
                \A i \in 1..Len(v.errors) : v.errors[i].reason # "already_claimed"

----------------------------------------------------------------------------
(* C40 *)

\* C40: for every name, the employees row that validate_passengers checks is
\* the row that update_employee_driver and clear_employee_driver write
\* (both through get_employee_by_name), also when several rows share the
\* normalized name
C40_SameRowCheckedAndWritten ==
    \A name \in MergeNames \cup {"CY"} :
        LET checked == ValidatedEmployee(name)
            written == get_employee_by_name(Store, name, Env(NoFault)).v
        IN  checked # None => (written # None /\ written.row_index = checked.row_index)

====
